---- MODULE Spec2Model ----
(***************************************************************************)
(* AidChain: one escrow instance (AidChain proxy) with its reward ledger   *)
(* (AidToken proxy), as wired by AidChainFactory.deployCompleteSystem.     *)
(*                                                                         *)
(* Every external function is one atomic action: the EVM commits or rolls  *)
(* back a whole transaction.  A handler is an operator from the state     *)
(* before the call and the call's inputs to its outcome: the error it      *)
(* reverts with or the state it commits, and what it shows to the outside  *)
(* while it runs (the storage at the moment of each external call it       *)
(* issues, the reentrancy lock at that moment, what the recipient of a     *)
(* value transfer tried in its receive callback).  A reverted call leaves  *)
(* no trace in the state: the actions are the calls that commit, and       *)
(* `last` records the latest of them.                                      *)
(*                                                                         *)
(* Spec is the life of the pair created by the factory's first              *)
(* deployCompleteSystem.  SpecMilestones is the same pair with a longer    *)
(* milestone table and a single donor.  SpecLowGoal is the same pair with   *)
(* a funding goal the donors can reach and exceed.  SpecFactory is the     *)
(* factory from                                                            *)
(* its construction on: the proxies it creates are kept in `chains` and    *)
(* `tokens`, and no call is made on them after their creation.             *)
(* SpecInstances is the factory with the calls made on the instances and   *)
(* ledgers it has created.  SpecUpgrade is the first pair with upgrades    *)
(* and transfers of ownership of its two proxies.                          *)
(*                                                                         *)
(* Units.  Attached value is counted in units of 5 * 10^14 wei, so that    *)
(* `1 ether` is ONE_ETHER = 2000 units and                                 *)
(* (msg.value * DONATION_REWARD_MULTIPLIER) / 1 ether is computed exactly  *)
(* on small numbers.  Ledger balances are counted in whole AID tokens      *)
(* (10^18 base units), so `X * 10**18` is X.  All uint256 arithmetic is    *)
(* checked (Solidity 0.8) and far from 2^256 within the bounds.            *)
(***************************************************************************)
EXTENDS Integers, Sequences, FiniteSets, TLC

\* ------------------------------------------------------------ bounds
MaxMilestones == 1
MaxTime == 1
InitialBalance == 2
\* SpecMilestones: the length of the milestone table
MaxCreated == 2
\* SpecFactory, SpecInstances: the number of proxies the factory creates
MaxProxies == 4
\* SpecInstances: the tokens the ledger's owner mints directly to one account
MaxMinted == 1

\* ------------------------------------------------- program constants
VERIFICATION_REWARD == 100
MILESTONE_COMPLETION_REWARD == 50
DONATION_REWARD_MULTIPLIER == 1000
MILESTONE_REPUTATION_BOOST == 10
ONE_ETHER == 2000
FUNDING_GOAL == 10

\* --------------------------------------------------------- addresses
Creator == "projectCreator"
Donor1 == "donor1"
Donor2 == "donor2"
Admin == "factoryOwner"
FactoryAddr == "aidChainFactory"
ZeroAddr == "address0"

\* The addresses of the contracts the factory creates, in the order of their
\* creation (an implementation, then its proxy).
Created ==
    << "contract1", "contract2", "contract3", "contract4", "contract5",
       "contract6", "contract7", "contract8", "contract9", "contract10",
       "contract11", "contract12", "contract13", "contract14", "contract15",
       "contract16" >>

\* The pair created by the first deployCompleteSystem of a factory.
AidTokenAddr == Created[2]
AidChainAddr == Created[4]

\* The callers of the instance, and the callers of the ledger's owner functions.
Accounts == {Creator, Donor1, Donor2}
TokenCallers == {Admin, Creator}
Handles == {Created[i] : i \in 1..Len(Created)}
Holders == Accounts \cup Handles

\* Implementation contracts deployed after the factory's, fit for an upgrade.
NewImplementations == {"implementationV2", "implementationV3"}

\* ------------------------------------------------------------ inputs
Proofs == {"QmProofA", "QmProofB"}
FundingAmounts == {0, 2}
VotingDurations == {0, 1}
Names == {"", "Relief"}
FundingGoals == {0, FUNDING_GOAL}

Ok == "ok"
NOT_ENTERED == "NOT_ENTERED"
ENTERED == "ENTERED"

VARIABLES
    aidChain,   \* storage of the AidChain proxy
    aidToken,   \* storage of the AidToken proxy
    balance,    \* native-value balance of every address
    now,        \* block.timestamp
    released,   \* per milestone: the amounts transferred to the creator
    rewarded,   \* per milestone: number of completion-reward credits
    last,       \* the latest committed call: inputs, external calls issued
    factory,    \* storage of the AidChainFactory, and its creation count
    chains,     \* storage of every further AidChain proxy, by address
    tokens      \* storage of every further AidToken proxy, by address

vars == <<aidChain, aidToken, balance, now, released, rewarded, last,
          factory, chains, tokens>>

\* ------------------------------------------------------ result records
\* An external call issued by a handler, with the instance's storage as it
\* stands at that moment (what a view call made by the callee would read).
ExtCall(kind, to, amount, c) ==
    [kind |-> kind, to |-> to, amount |-> amount, view |-> c]

\* Mutant: a call that reverts leaves the reentrancy lock held.
Revert_lockStuck(e, c, t, b, calls, nested) ==
    [err |-> e, chain |-> [c EXCEPT !.status = ENTERED], token |-> t, bal |-> b,
     calls |-> calls, nested |-> nested]

\* The transaction reverts: storage, ledger and balances are as before it.
Revert(e, c, t, b, calls, nested) ==
    [err |-> e, chain |-> c, token |-> t, bal |-> b, calls |-> calls, nested |-> nested]

\* The transaction commits.
Done(c, t, b, calls, nested) ==
    [err |-> Ok, chain |-> c, token |-> t, bal |-> b, calls |-> calls, nested |-> nested]

NoNested == [op |-> "none", result |-> "none"]

\* Mutant: the ledger credits on anyone's request.
mint_anyone(t, sender, to, amount) ==
    [err |-> Ok, token |-> [t EXCEPT !.balanceOf[to] = @ + amount]]

\* ------------------------------------------------------------ AidToken
mint(t, sender, to, amount) ==
    IF sender = t.aidChainContract \/ sender = t.owner
    THEN [err |-> Ok, token |-> [t EXCEPT !.balanceOf[to] = @ + amount]]
    ELSE [err |-> "Not authorized", token |-> t]

\* Mutant: the ledger lets any caller name its minter.
setAidChainContract_anyone(t, sender, a) ==
    [err |-> Ok, token |-> [t EXCEPT !.aidChainContract = a]]

setAidChainContract(t, sender, a) ==
    IF sender = t.owner
    THEN [err |-> Ok, token |-> [t EXCEPT !.aidChainContract = a]]
    ELSE [err |-> "OwnableUnauthorizedAccount", token |-> t]

\* AidToken.initialize(), run by the proxy's constructor: the deployer owns
\* the ledger and no minter is set.
tokenInitialize(sender) ==
    [ aidChainContract |-> ZeroAddr, owner |-> sender,
      balanceOf |-> [a \in Accounts |-> 0] ]

\* new ERC1967Proxy(implementation, initData): the proxy's storage holds the
\* implementation slot next to what the initializer wrote.
ERC1967Proxy(implementation, initialized) ==
    [implementation |-> implementation] @@ initialized

\* Mutant: the transfer of ownership is accepted and not carried out.
transferOwnership_kept(t, sender, newOwner) ==
    IF sender # t.owner THEN [err |-> "OwnableUnauthorizedAccount", token |-> t]
    ELSE IF newOwner = ZeroAddr THEN [err |-> "OwnableInvalidOwner", token |-> t]
    ELSE [err |-> Ok, token |-> t]

\* OwnableUpgradeable.transferOwnership
transferOwnership(t, sender, newOwner) ==
    IF sender # t.owner THEN [err |-> "OwnableUnauthorizedAccount", token |-> t]
    ELSE IF newOwner = ZeroAddr THEN [err |-> "OwnableInvalidOwner", token |-> t]
    ELSE [err |-> Ok, token |-> [t EXCEPT !.owner = newOwner]]

\* Mutant: the upgrade is open to every caller.
authorizeUpgrade_anyone(s, sender) == Ok

\* _authorizeUpgrade(address) internal override onlyOwner {}, the same in
\* AidChain and AidToken.  s is the storage of the proxy.
authorizeUpgrade(s, sender) ==
    IF sender # s.owner THEN "OwnableUnauthorizedAccount" ELSE Ok

\* UUPSUpgradeable.upgradeToAndCall(newImplementation, "") called on a proxy:
\* after _authorizeUpgrade the implementation slot is replaced; with empty
\* data no call is made into the new code.
upgradeToAndCall(s, sender, newImplementation) ==
    IF authorizeUpgrade(s, sender) # Ok
    THEN [err |-> authorizeUpgrade(s, sender), storage |-> s]
    ELSE [err |-> Ok, storage |-> [s EXCEPT !.implementation = newImplementation]]

\* ------------------------------------------------------------ AidChain
\* The storage of a proxy before its initializer has run.
Blank == [initialized |-> FALSE]

\* Mutant: the deployer, not the creator, becomes the owner.
initialize_ownerIsDeployer(c, token, creator, name, fundingGoal, ts) ==
    [ err |-> Ok,
      chain |-> [ initialized |-> TRUE, status |-> NOT_ENTERED, owner |-> FactoryAddr,
                  aidToken |-> token,
                  project |-> [ id |-> 1, creator |-> creator, name |-> name,
                                fundingGoal |-> fundingGoal,
                                fundsRaised |-> 0, createdAt |-> ts, active |-> TRUE,
                                zkKycVerified |-> FALSE, reputationScore |-> 0 ],
                  milestoneCount |-> 0, milestones |-> << >>,
                  projectMilestones |-> << >>,
                  donorReputation |-> [a \in Accounts |-> 0],
                  milestoneVotes |-> << >>,
                  projectDonations |-> [a \in Accounts |-> 0],
                  donorHistory |-> [a \in Accounts |-> << >>] ] ]

\* initialize(...) public initializer, on a proxy whose storage is c.  The
\* initializer modifier lets it run once; __Ownable_init rejects address(0).
initialize(c, token, creator, name, fundingGoal, ts) ==
    IF c.initialized THEN [err |-> "InvalidInitialization", chain |-> c]
    ELSE IF creator = ZeroAddr THEN [err |-> "OwnableInvalidOwner", chain |-> c]
    ELSE
    [ err |-> Ok,
      chain |->
    [ initialized |-> TRUE,
      status |-> NOT_ENTERED,
      owner |-> creator,
      aidToken |-> token,
      project |-> [ id |-> 1, creator |-> creator, name |-> name,
                    fundingGoal |-> fundingGoal,
                    fundsRaised |-> 0, createdAt |-> ts, active |-> TRUE,
                    zkKycVerified |-> FALSE, reputationScore |-> 0 ],
      milestoneCount |-> 0,
      milestones |-> << >>,
      projectMilestones |-> << >>,
      donorReputation |-> [a \in Accounts |-> 0],
      milestoneVotes |-> << >>,
      projectDonations |-> [a \in Accounts |-> 0],
      donorHistory |-> [a \in Accounts |-> << >>] ] ]

\* Mutant: the already-verified guard is forgotten.
verifyZkKyc_repeatable(c, t, b) ==
    LET c1 == [c EXCEPT !.project.zkKycVerified = TRUE]
        m == mint(t, AidChainAddr, c.project.creator, VERIFICATION_REWARD)
        calls == << ExtCall("mint", c.project.creator, VERIFICATION_REWARD, c1) >>
    IN  IF m.err # Ok
        THEN Revert(m.err, c, t, b, calls, NoNested)
        ELSE Done(c1, m.token, b, calls, NoNested)

\* verifyZkKyc() external, run by the instance at address self.
verifyZkKycAt(self, c, t, b) ==
    IF c.project.zkKycVerified
    THEN Revert("ProjectAlreadyVerified", c, t, b, << >>, NoNested)
    ELSE LET c1 == [c EXCEPT !.project.zkKycVerified = TRUE]
             m == mint(t, self, c.project.creator, VERIFICATION_REWARD)
             calls == << ExtCall("mint", c.project.creator, VERIFICATION_REWARD, c1) >>
         IN  IF m.err # Ok
             THEN Revert(m.err, c, t, b, calls, NoNested)
             ELSE Done(c1, m.token, b, calls, NoNested)

\* verifyZkKyc() of the instance at AidChainAddr.
verifyZkKyc(c, t, b) == verifyZkKycAt(AidChainAddr, c, t, b)

\* Mutant: the identity gate is forgotten.
fundProjectCheck_skipKyc(c, value) ==
    IF value = 0 THEN "DonationMustBePositive"
    ELSE IF ~c.project.active THEN "ProjectNotActive"
    ELSE Ok

\* The three guards of fundProject, in the order of the code.
fundProjectCheck(c, value) ==
    IF value = 0 THEN "DonationMustBePositive"
    ELSE IF ~c.project.active THEN "ProjectNotActive"
    ELSE IF ~c.project.zkKycVerified THEN "ProjectNotVerified"
    ELSE Ok

\* Mutant: the donation reward is rounded up instead of down.
aidReward_roundUp(value) ==
    (value * DONATION_REWARD_MULTIPLIER + ONE_ETHER - 1) \div ONE_ETHER

\* (msg.value * DONATION_REWARD_MULTIPLIER) / 1 ether
aidReward(value) == (value * DONATION_REWARD_MULTIPLIER) \div ONE_ETHER

\* Mutant: a donation does not count towards the donor's reputation.
fundProjectEffects_noReputation(c, ts, sender, value) ==
    [c EXCEPT !.project.fundsRaised = @ + value,
              !.projectDonations[sender] = @ + value,
              !.donorHistory[sender] =
                  Append(@, [donor |-> sender, amount |-> value,
                             timestamp |-> ts, projectId |-> c.project.id])]

\* Mutant: the project is closed once the funding goal is reached.
fundProjectEffects_closesAtGoal(c, ts, sender, value) ==
    [c EXCEPT !.project.fundsRaised = @ + value,
              !.project.active = c.project.fundsRaised + value < c.project.fundingGoal,
              !.projectDonations[sender] = @ + value,
              !.donorHistory[sender] =
                  Append(@, [donor |-> sender, amount |-> value,
                             timestamp |-> ts, projectId |-> c.project.id]),
              !.donorReputation[sender] = @ + value]

\* Mutant: the new donation is put in front of the donor's history.
fundProjectEffects_prepend(c, ts, sender, value) ==
    [c EXCEPT !.project.fundsRaised = @ + value,
              !.projectDonations[sender] = @ + value,
              !.donorHistory[sender] =
                  << [donor |-> sender, amount |-> value,
                      timestamp |-> ts, projectId |-> c.project.id] >> \o @,
              !.donorReputation[sender] = @ + value]

\* The storage writes of fundProject.
fundProjectEffects(c, ts, sender, value) ==
    [c EXCEPT !.project.fundsRaised = @ + value,
              !.projectDonations[sender] = @ + value,
              !.donorHistory[sender] =
                  Append(@, [donor |-> sender, amount |-> value,
                             timestamp |-> ts, projectId |-> c.project.id]),
              !.donorReputation[sender] = @ + value]

\* fundProject() external payable nonReentrant.  b is the balance before the
\* call; msg.value moves to the instance when the call starts.
fundProjectAt(self, c, t, b, ts, sender, value) ==
    IF c.status = ENTERED
    THEN Revert("ReentrancyGuardReentrantCall", c, t, b, << >>, NoNested)
    ELSE LET locked == [c EXCEPT !.status = ENTERED]
             e == fundProjectCheck(locked, value)
             b1 == [b EXCEPT ![sender] = @ - value, ![self] = @ + value]
             c1 == fundProjectEffects(locked, ts, sender, value)
             m == mint(t, self, sender, aidReward(value))
             calls == << ExtCall("mint", sender, aidReward(value), c1) >>
             unlocked == [c1 EXCEPT !.status = NOT_ENTERED]
         IN  IF e # Ok THEN Revert(e, c, t, b, << >>, NoNested)
             ELSE IF aidReward(value) > 0
             THEN IF m.err # Ok
                  THEN Revert(m.err, c, t, b, calls, NoNested)
                  ELSE Done(unlocked, m.token, b1, calls, NoNested)
             ELSE Done(unlocked, t, b1, << >>, NoNested)

\* fundProject() of the instance at AidChainAddr.
fundProject(c, t, b, ts, sender, value) ==
    fundProjectAt(AidChainAddr, c, t, b, ts, sender, value)

\* Mutant: any caller may create a milestone.
createMilestoneCheck_anyone(c, sender) ==
    IF ~c.project.active THEN "ProjectNotActive" ELSE Ok

createMilestoneCheck(c, sender) ==
    IF sender # c.project.creator THEN "NotProjectCreator"
    ELSE IF ~c.project.active THEN "ProjectNotActive"
    ELSE Ok

\* Mutant: ids are counted from 0.
createMilestone_fromZero(c, t, b, ts, sender, fundingAmount, votingDuration) ==
    LET e == createMilestoneCheck(c, sender)
        ms == [ id |-> c.milestoneCount, projectId |-> c.project.id,
                fundingAmount |-> fundingAmount,
                proofIpfsHash |-> "", completed |-> FALSE, approved |-> FALSE,
                votesFor |-> 0, votesAgainst |-> 0,
                votingDeadline |-> ts + votingDuration ]
        c1 == [c EXCEPT !.milestoneCount = @ + 1,
                        !.milestones = Append(@, ms),
                        !.milestoneVotes = Append(@, [a \in Accounts |-> FALSE]),
                        !.projectMilestones = Append(@, c.milestoneCount)]
    IN  IF e # Ok THEN Revert(e, c, t, b, << >>, NoNested)
        ELSE Done(c1, t, b, << >>, NoNested)

createMilestone(c, t, b, ts, sender, fundingAmount, votingDuration) ==
    LET e == createMilestoneCheck(c, sender)
        id == c.milestoneCount + 1
        ms == [ id |-> id, projectId |-> c.project.id, fundingAmount |-> fundingAmount,
                proofIpfsHash |-> "", completed |-> FALSE, approved |-> FALSE,
                votesFor |-> 0, votesAgainst |-> 0,
                votingDeadline |-> ts + votingDuration ]
        c1 == [c EXCEPT !.milestoneCount = id,
                        !.milestones = Append(@, ms),
                        !.milestoneVotes = Append(@, [a \in Accounts |-> FALSE]),
                        !.projectMilestones = Append(@, id)]
    IN  IF e # Ok THEN Revert(e, c, t, b, << >>, NoNested)
        ELSE Done(c1, t, b, << >>, NoNested)

InvalidId(c, mid) == mid = 0 \/ mid > c.milestoneCount

\* Mutant: the proof of a completed milestone may still be replaced.
submitMilestoneProofCheck_afterCompletion(c, sender, mid) ==
    IF InvalidId(c, mid) THEN "InvalidMilestoneId"
    ELSE IF sender # c.project.creator THEN "NotProjectCreator"
    ELSE Ok

submitMilestoneProofCheck(c, sender, mid) ==
    IF InvalidId(c, mid) THEN "InvalidMilestoneId"
    ELSE IF sender # c.project.creator THEN "NotProjectCreator"
    ELSE IF c.milestones[mid].completed THEN "MilestoneAlreadyCompleted"
    ELSE Ok

submitMilestoneProof(c, t, b, sender, mid, proof) ==
    LET e == submitMilestoneProofCheck(c, sender, mid)
    IN  IF e # Ok THEN Revert(e, c, t, b, << >>, NoNested)
        ELSE Done([c EXCEPT !.milestones[mid].proofIpfsHash = proof], t, b, << >>, NoNested)

\* Mutant: a milestone is finalized only once a proof is stored.
finalizeMilestoneCheck_needsProof(c, sender, mid) ==
    IF InvalidId(c, mid) THEN "InvalidMilestoneId"
    ELSE IF sender # c.project.creator THEN "NotProjectCreator"
    ELSE IF c.milestones[mid].completed THEN "MilestoneAlreadyCompleted"
    ELSE IF c.milestones[mid].proofIpfsHash = "" THEN "ProofRequired"
    ELSE Ok

\* Mutant: a completed milestone may be finalized again.
finalizeMilestoneCheck_repeatable(c, sender, mid) ==
    IF InvalidId(c, mid) THEN "InvalidMilestoneId"
    ELSE IF sender # c.project.creator THEN "NotProjectCreator"
    ELSE Ok

finalizeMilestoneCheck(c, sender, mid) ==
    IF InvalidId(c, mid) THEN "InvalidMilestoneId"
    ELSE IF sender # c.project.creator THEN "NotProjectCreator"
    ELSE IF c.milestones[mid].completed THEN "MilestoneAlreadyCompleted"
    ELSE Ok

\* Mutant: finalizing a milestone extends its voting window.
finalizeMilestone_reopens(c, t, b, sender, mid) ==
    LET e == finalizeMilestoneCheck(c, sender, mid)
    IN  IF e # Ok THEN Revert(e, c, t, b, << >>, NoNested)
        ELSE Done([c EXCEPT !.milestones[mid].completed = TRUE,
                            !.milestones[mid].votingDeadline = @ + 1],
                  t, b, << >>, NoNested)

finalizeMilestone(c, t, b, sender, mid) ==
    LET e == finalizeMilestoneCheck(c, sender, mid)
    IN  IF e # Ok THEN Revert(e, c, t, b, << >>, NoNested)
        ELSE Done([c EXCEPT !.milestones[mid].completed = TRUE], t, b, << >>, NoNested)

\* Mutant: the vote receipt is not checked.
voteOnMilestoneCheck_noReceipt(c, ts, sender, mid) ==
    IF InvalidId(c, mid) THEN "InvalidMilestoneId"
    ELSE IF ~c.milestones[mid].completed THEN "MilestoneNotCompleted"
    ELSE IF c.milestones[mid].approved THEN "MilestoneAlreadyApproved"
    ELSE IF ts >= c.milestones[mid].votingDeadline THEN "VotingPeriodEnded"
    ELSE IF c.projectDonations[sender] = 0 THEN "NotADonor"
    ELSE Ok

\* Mutant: votes are taken before the milestone is finalized.
voteOnMilestoneCheck_noCompleted(c, ts, sender, mid) ==
    IF InvalidId(c, mid) THEN "InvalidMilestoneId"
    ELSE IF c.milestones[mid].approved THEN "MilestoneAlreadyApproved"
    ELSE IF ts >= c.milestones[mid].votingDeadline THEN "VotingPeriodEnded"
    ELSE IF c.milestoneVotes[mid][sender] THEN "AlreadyVoted"
    ELSE IF c.projectDonations[sender] = 0 THEN "NotADonor"
    ELSE Ok

\* Mutant: the voting deadline is not checked.
voteOnMilestoneCheck_noDeadline(c, ts, sender, mid) ==
    IF InvalidId(c, mid) THEN "InvalidMilestoneId"
    ELSE IF ~c.milestones[mid].completed THEN "MilestoneNotCompleted"
    ELSE IF c.milestones[mid].approved THEN "MilestoneAlreadyApproved"
    ELSE IF c.milestoneVotes[mid][sender] THEN "AlreadyVoted"
    ELSE IF c.projectDonations[sender] = 0 THEN "NotADonor"
    ELSE Ok

\* Mutant: a vote is still taken at the deadline itself.
voteOnMilestoneCheck_deadlineInclusive(c, ts, sender, mid) ==
    IF InvalidId(c, mid) THEN "InvalidMilestoneId"
    ELSE IF ~c.milestones[mid].completed THEN "MilestoneNotCompleted"
    ELSE IF c.milestones[mid].approved THEN "MilestoneAlreadyApproved"
    ELSE IF ts > c.milestones[mid].votingDeadline THEN "VotingPeriodEnded"
    ELSE IF c.milestoneVotes[mid][sender] THEN "AlreadyVoted"
    ELSE IF c.projectDonations[sender] = 0 THEN "NotADonor"
    ELSE Ok

\* Mutant: the receipt is checked before the milestone's state.
voteOnMilestoneCheck_receiptFirst(c, ts, sender, mid) ==
    IF InvalidId(c, mid) THEN "InvalidMilestoneId"
    ELSE IF c.milestoneVotes[mid][sender] THEN "AlreadyVoted"
    ELSE IF ~c.milestones[mid].completed THEN "MilestoneNotCompleted"
    ELSE IF c.milestones[mid].approved THEN "MilestoneAlreadyApproved"
    ELSE IF ts >= c.milestones[mid].votingDeadline THEN "VotingPeriodEnded"
    ELSE IF c.projectDonations[sender] = 0 THEN "NotADonor"
    ELSE Ok

\* The guards of voteOnMilestone, in the order of the code.
voteOnMilestoneCheck(c, ts, sender, mid) ==
    IF InvalidId(c, mid) THEN "InvalidMilestoneId"
    ELSE IF ~c.milestones[mid].completed THEN "MilestoneNotCompleted"
    ELSE IF c.milestones[mid].approved THEN "MilestoneAlreadyApproved"
    ELSE IF ts >= c.milestones[mid].votingDeadline THEN "VotingPeriodEnded"
    ELSE IF c.milestoneVotes[mid][sender] THEN "AlreadyVoted"
    ELSE IF c.projectDonations[sender] = 0 THEN "NotADonor"
    ELSE Ok

\* Mutant: a vote counts twice its weight.
voteEffects_double(c, sender, mid, approve, weight) ==
    [c EXCEPT !.milestoneVotes[mid][sender] = TRUE,
              !.milestones[mid].votesFor = IF approve THEN @ + 2 * weight ELSE @,
              !.milestones[mid].votesAgainst = IF approve THEN @ ELSE @ + 2 * weight]

\* Mutant: one voter, one vote.
voteEffects_headcount(c, sender, mid, approve, weight) ==
    [c EXCEPT !.milestoneVotes[mid][sender] = TRUE,
              !.milestones[mid].votesFor = IF approve THEN @ + 1 ELSE @,
              !.milestones[mid].votesAgainst = IF approve THEN @ ELSE @ + 1]

\* The vote receipt and the tally written by a vote of the given weight.
voteEffects(c, sender, mid, approve, weight) ==
    [c EXCEPT !.milestoneVotes[mid][sender] = TRUE,
              !.milestones[mid].votesFor = IF approve THEN @ + weight ELSE @,
              !.milestones[mid].votesAgainst = IF approve THEN @ ELSE @ + weight]

\* Mutant: one vote against blocks the approval for good.
autoApprove_unopposed(m) == m.votesFor > m.votesAgainst /\ m.votesAgainst = 0

\* Mutant: a tie approves.
autoApprove_tie(m) == m.votesFor >= m.votesAgainst

\* "Auto-approve if enough votes"
autoApprove(m) == m.votesFor > m.votesAgainst

\* Mutant: the release is not clamped to the balance.
releaseAmountOf_unclamped(fundingAmount, thisBalance) == fundingAmount

\* releaseAmount, clamped to address(this).balance
releaseAmountOf(fundingAmount, thisBalance) ==
    IF fundingAmount > thisBalance THEN thisBalance ELSE fundingAmount

\* What a call made by the creator from its receive callback ends with.
\* `transfer` forwards only the 2300 gas stipend, with which no storage write
\* succeeds: a nested call that passes the guards runs out of gas at its
\* first write (for fundProject, the write of the lock itself).
nestedCall(c, ts, op, mid) ==
    LET sender == c.project.creator
        e == CASE op = "verifyZkKyc" ->
                    IF c.project.zkKycVerified THEN "ProjectAlreadyVerified" ELSE Ok
               [] op = "fundProject" ->
                    IF c.status = ENTERED THEN "ReentrancyGuardReentrantCall" ELSE Ok
               [] op = "createMilestone" -> createMilestoneCheck(c, sender)
               [] op = "submitMilestoneProof" -> submitMilestoneProofCheck(c, sender, mid)
               [] op = "finalizeMilestone" -> finalizeMilestoneCheck(c, sender, mid)
               [] op = "voteOnMilestone" -> voteOnMilestoneCheck(c, ts, sender, mid)
    IN  [op |-> op, result |-> IF e # Ok THEN e ELSE "OutOfGas"]

NestedOps == {"verifyZkKyc", "fundProject", "createMilestone",
              "submitMilestoneProof", "finalizeMilestone", "voteOnMilestone"}

\* What the recipient of the release does on receipt: accept, revert, or
\* call back into the instance and then accept.
Callbacks == {"accept", "revert"} \cup NestedOps

\* The recipient runs only when a transfer is issued: when the vote passes its
\* guards, tips the tally and the clamped release amount is not zero.
CallbacksAt(c, b, ts, sender, mid, approve) ==
    IF /\ voteOnMilestoneCheck(c, ts, sender, mid) = Ok
       /\ autoApprove(voteEffects(c, sender, mid, approve, c.projectDonations[sender]).milestones[mid])
       /\ releaseAmountOf(c.milestones[mid].fundingAmount, b[AidChainAddr]) > 0
    THEN Callbacks
    ELSE {"accept"}

\* Mutant: the approved flag is never written.
markApproved_forgotten(c, mid) == c

\* milestone.approved = true
markApproved(c, mid) == [c EXCEPT !.milestones[mid].approved = TRUE]

\* Mutant: a release is booked against fundsRaised.
releaseEffects_spend(c, releaseAmount) ==
    [c EXCEPT !.project.reputationScore = @ + MILESTONE_REPUTATION_BOOST,
              !.project.fundsRaised = @ - releaseAmount]

\* The storage write that follows the transfer of a nonzero release.
releaseEffects(c, releaseAmount) ==
    [c EXCEPT !.project.reputationScore = @ + MILESTONE_REPUTATION_BOOST]

\* Mutant: the release is paid to the creator and not taken from the instance.
approveMilestone_noDebit(c, t, b, ts, mid, cb) ==
    IF c.milestones[mid].approved
    THEN Revert("MilestoneAlreadyApproved", c, t, b, << >>, NoNested)
    ELSE LET c2 == markApproved(c, mid)
             creator == c.project.creator
             releaseAmount == releaseAmountOf(c.milestones[mid].fundingAmount, b[AidChainAddr])
             xfer == ExtCall("transfer", creator, releaseAmount, c2)
             nested == IF cb \in NestedOps THEN nestedCall(c2, ts, cb, mid) ELSE NoNested
             b2 == [b EXCEPT ![creator] = @ + releaseAmount]
             c3 == releaseEffects(c2, releaseAmount)
             m == mint(t, AidChainAddr, creator, MILESTONE_COMPLETION_REWARD)
             calls == << xfer, ExtCall("mint", creator, MILESTONE_COMPLETION_REWARD, c3) >>
         IN  IF releaseAmount > 0
             THEN IF cb = "revert"
                  THEN Revert("TransferFailed", c, t, b, << xfer >>, nested)
                  ELSE IF m.err # Ok
                  THEN Revert(m.err, c, t, b, calls, nested)
                  ELSE Done(c3, m.token, b2, calls, nested)
             ELSE Done(c2, t, b, << >>, NoNested)

\* approveMilestone(): internal, reached only from voteOnMilestone.
approveMilestone(c, t, b, ts, mid, cb) ==
    IF c.milestones[mid].approved
    THEN Revert("MilestoneAlreadyApproved", c, t, b, << >>, NoNested)
    ELSE LET c2 == markApproved(c, mid)
             creator == c.project.creator
             releaseAmount == releaseAmountOf(c.milestones[mid].fundingAmount, b[AidChainAddr])
             xfer == ExtCall("transfer", creator, releaseAmount, c2)
             nested == IF cb \in NestedOps THEN nestedCall(c2, ts, cb, mid) ELSE NoNested
             b2 == [b EXCEPT ![AidChainAddr] = @ - releaseAmount, ![creator] = @ + releaseAmount]
             c3 == releaseEffects(c2, releaseAmount)
             m == mint(t, AidChainAddr, creator, MILESTONE_COMPLETION_REWARD)
             calls == << xfer, ExtCall("mint", creator, MILESTONE_COMPLETION_REWARD, c3) >>
         IN  IF releaseAmount > 0
             THEN IF cb = "revert"
                  THEN Revert("TransferFailed", c, t, b, << xfer >>, nested)
                  ELSE IF m.err # Ok
                  THEN Revert(m.err, c, t, b, calls, nested)
                  ELSE Done(c3, m.token, b2, calls, nested)
             ELSE Done(c2, t, b, << >>, NoNested)

voteOnMilestone(c, t, b, ts, sender, mid, approve, cb) ==
    LET e == voteOnMilestoneCheck(c, ts, sender, mid)
        weight == c.projectDonations[sender]
        c1 == voteEffects(c, sender, mid, approve, weight)
        r == approveMilestone(c1, t, b, ts, mid, cb)
    IN  IF e # Ok THEN Revert(e, c, t, b, << >>, NoNested)
        ELSE IF autoApprove(c1.milestones[mid])
        THEN IF r.err # Ok
             THEN Revert(r.err, c, t, b, r.calls, r.nested)
             ELSE r
        ELSE Done(c1, t, b, << >>, NoNested)

\* ----------------------------------------------------- AidChainFactory
\* The factory right after its constructor, deployed by Admin.
FreshFactory ==
    [ owner |-> Admin, nonce |-> 0, deployments |-> << >>,
      isDeployedByFactory |-> {} ]

NoProxies == [a \in {} |-> Blank]

\* A factory call reverts: factory and proxies are as before it.
FactoryRevert(e, f, cm, tm) ==
    [err |-> e, factory |-> f, chains |-> cm, tokens |-> tm,
     proxy |-> ZeroAddr, implementation |-> ZeroAddr]

\* Mutant: deployAidToken is open to every caller.
deployAidToken_anyone(f, cm, tm, sender) ==
    LET implementation == Created[f.nonce + 1]
        proxy == Created[f.nonce + 2]
    IN  [ err |-> Ok,
          factory |-> [f EXCEPT !.nonce = @ + 2,
                                !.isDeployedByFactory = @ \cup {proxy}],
          chains |-> cm,
          tokens |-> (proxy :> ERC1967Proxy(implementation,
                                            tokenInitialize(FactoryAddr))) @@ tm,
          proxy |-> proxy, implementation |-> implementation ]

\* deployAidToken() public onlyOwner.  f is the factory's storage, cm and tm
\* the AidChain and AidToken proxies in existence.
deployAidToken(f, cm, tm, sender) ==
    IF sender # f.owner THEN FactoryRevert("OwnableUnauthorizedAccount", f, cm, tm)
    ELSE LET implementation == Created[f.nonce + 1]
             proxy == Created[f.nonce + 2]
         IN  [ err |-> Ok,
               factory |-> [f EXCEPT !.nonce = @ + 2,
                                     !.isDeployedByFactory = @ \cup {proxy}],
               chains |-> cm,
               tokens |-> (proxy :> ERC1967Proxy(implementation,
                                                 tokenInitialize(FactoryAddr))) @@ tm,
               proxy |-> proxy, implementation |-> implementation ]

\* Mutant: the creator address is validated before the ledger address.
deployAidChain_creatorFirst(f, cm, tm, sender, token, creator, name, fundingGoal, ts) ==
    IF sender # f.owner THEN FactoryRevert("OwnableUnauthorizedAccount", f, cm, tm)
    ELSE IF creator = ZeroAddr THEN FactoryRevert("Invalid creator address", f, cm, tm)
    ELSE IF token = ZeroAddr THEN FactoryRevert("Invalid AidToken address", f, cm, tm)
    ELSE LET implementation == Created[f.nonce + 1]
             proxy == Created[f.nonce + 2]
             init == initialize(Blank, token, creator, name, fundingGoal, ts)
         IN  IF init.err # Ok THEN FactoryRevert(init.err, f, cm, tm)
             ELSE [ err |-> Ok,
                    factory |-> [f EXCEPT !.nonce = @ + 2,
                                          !.isDeployedByFactory = @ \cup {proxy}],
                    chains |-> (proxy :> ERC1967Proxy(implementation, init.chain)) @@ cm,
                    tokens |-> tm,
                    proxy |-> proxy, implementation |-> implementation ]

\* deployAidChain(...) public onlyOwner
deployAidChain(f, cm, tm, sender, token, creator, name, fundingGoal, ts) ==
    IF sender # f.owner THEN FactoryRevert("OwnableUnauthorizedAccount", f, cm, tm)
    ELSE IF token = ZeroAddr THEN FactoryRevert("Invalid AidToken address", f, cm, tm)
    ELSE IF creator = ZeroAddr THEN FactoryRevert("Invalid creator address", f, cm, tm)
    ELSE LET implementation == Created[f.nonce + 1]
             proxy == Created[f.nonce + 2]
             init == initialize(Blank, token, creator, name, fundingGoal, ts)
         IN  IF init.err # Ok THEN FactoryRevert(init.err, f, cm, tm)
             ELSE [ err |-> Ok,
                    factory |-> [f EXCEPT !.nonce = @ + 2,
                                          !.isDeployedByFactory = @ \cup {proxy}],
                    chains |-> (proxy :> ERC1967Proxy(implementation, init.chain)) @@ cm,
                    tokens |-> tm,
                    proxy |-> proxy, implementation |-> implementation ]

\* deployCompleteSystem(...) external onlyOwner
deployCompleteSystem(f, cm, tm, sender, creator, name, fundingGoal, ts) ==
    IF sender # f.owner THEN FactoryRevert("OwnableUnauthorizedAccount", f, cm, tm)
    ELSE LET a == deployAidToken(f, cm, tm, sender)
             b == deployAidChain(a.factory, a.chains, a.tokens, sender, a.proxy,
                                 creator, name, fundingGoal, ts)
             wired == setAidChainContract(b.tokens[a.proxy], FactoryAddr, b.proxy)
             handed == transferOwnership(wired.token, FactoryAddr, f.owner)
             deployment == [ aidTokenProxy |-> a.proxy,
                             aidTokenImplementation |-> a.implementation,
                             aidChainProxy |-> b.proxy,
                             aidChainImplementation |-> b.implementation,
                             timestamp |-> ts ]
         IN  IF a.err # Ok THEN FactoryRevert(a.err, f, cm, tm)
             ELSE IF b.err # Ok THEN FactoryRevert(b.err, f, cm, tm)
             ELSE IF wired.err # Ok THEN FactoryRevert(wired.err, f, cm, tm)
             ELSE IF handed.err # Ok THEN FactoryRevert(handed.err, f, cm, tm)
             ELSE [ err |-> Ok,
                    factory |-> [b.factory EXCEPT !.deployments = Append(@, deployment)],
                    chains |-> b.chains,
                    tokens |-> [b.tokens EXCEPT ![a.proxy] = handed.token],
                    proxy |-> b.proxy, implementation |-> b.implementation ]

\* getDeploymentCount() external view
getDeploymentCount(f) == Len(f.deployments)

\* getDeployment(index) external view; index counts from 0.
getDeployment(f, index) ==
    IF ~(index < Len(f.deployments))
    THEN [err |-> "Invalid deployment index"]
    ELSE [err |-> Ok, deployment |-> f.deployments[index + 1]]

\* Mutant: the latest deployment is read at the front of the log.
getLatestDeployment_first(f) ==
    IF ~(Len(f.deployments) > 0)
    THEN [err |-> "No deployments yet"]
    ELSE [err |-> Ok, deployment |-> f.deployments[1]]

\* getLatestDeployment() external view
getLatestDeployment(f) ==
    IF ~(Len(f.deployments) > 0)
    THEN [err |-> "No deployments yet"]
    ELSE [err |-> Ok, deployment |-> f.deployments[Len(f.deployments)]]

\* ------------------------------------------------------------- state
\* The amounts of the external calls of one kind, in the order issued.
RECURSIVE Amounts(_, _)
Amounts(calls, kind) ==
    IF calls = << >> THEN << >>
    ELSE IF Head(calls).kind = kind
    THEN << Head(calls).amount >> \o Amounts(Tail(calls), kind)
    ELSE Amounts(Tail(calls), kind)

Call(op, sender, value, mid, approve, r) ==
    [op |-> op, sender |-> sender, value |-> value, mid |-> mid, approve |-> approve,
     calls |-> r.calls, nested |-> r.nested]

\* The call commits its outcome r.
Commit(r, call) ==
    /\ r.err = Ok
    /\ aidChain' = r.chain
    /\ aidToken' = r.token
    /\ balance' = r.bal
    /\ last' = call
    /\ now' = now
    /\ UNCHANGED <<factory, chains, tokens>>

NoCalls == [calls |-> << >>, nested |-> NoNested]

\* The first deployCompleteSystem of the factory, called by Admin for Creator.
FirstSystem ==
    deployCompleteSystem(FreshFactory, NoProxies, NoProxies, Admin, Creator,
                         "Relief", FUNDING_GOAL, 0)

\* The state after that call: the instance is the ledger's minter, Admin the
\* ledger's owner.
Init ==
    /\ aidChain = FirstSystem.chains[AidChainAddr]
    /\ aidToken = FirstSystem.tokens[AidTokenAddr]
    /\ factory = FirstSystem.factory
    /\ chains = NoProxies
    /\ tokens = NoProxies
    /\ balance = [a \in Holders |-> CASE a = Donor1 -> InitialBalance - 1
                                       [] a = Donor2 -> InitialBalance
                                       [] OTHER -> 0]
    /\ now = 0
    /\ released = << >>
    /\ rewarded = << >>
    /\ last = Call("deployCompleteSystem", Admin, 0, 0, FALSE, NoCalls)

VerifyZkKyc ==
    \E sender \in Accounts :
        LET r == verifyZkKyc(aidChain, aidToken, balance)
        IN  /\ Commit(r, Call("verifyZkKyc", sender, 0, 0, FALSE, r))
            /\ UNCHANGED <<released, rewarded>>

\* fundProject called by one of the given senders.
FundProjectBy(senders) ==
    \E sender \in senders : \E value \in 0..balance[sender] :
        LET r == fundProject(aidChain, aidToken, balance, now, sender, value)
        IN  /\ Commit(r, Call("fundProject", sender, value, 0, FALSE, r))
            /\ UNCHANGED <<released, rewarded>>

FundProject == FundProjectBy(Accounts)

\* createMilestone while the table holds fewer than n milestones.
CreateMilestoneUpTo(n) ==
    \E sender \in Accounts : \E fundingAmount \in FundingAmounts :
      \E votingDuration \in VotingDurations :
        LET r == createMilestone(aidChain, aidToken, balance, now, sender,
                                 fundingAmount, votingDuration)
        IN  /\ aidChain.milestoneCount < n
            /\ Commit(r, Call("createMilestone", sender, fundingAmount, 0, FALSE, r))
            /\ released' = Append(released, << >>)
            /\ rewarded' = Append(rewarded, 0)

CreateMilestone == CreateMilestoneUpTo(MaxMilestones)

\* submitMilestoneProof with an id in 0..n.
SubmitMilestoneProofOn(n) ==
    \E sender \in Accounts : \E mid \in 0..n : \E proof \in Proofs :
        LET r == submitMilestoneProof(aidChain, aidToken, balance, sender, mid, proof)
        IN  /\ Commit(r, Call("submitMilestoneProof", sender, 0, mid, FALSE, r))
            /\ UNCHANGED <<released, rewarded>>

SubmitMilestoneProof == SubmitMilestoneProofOn(MaxMilestones)

\* finalizeMilestone with an id in 0..n.
FinalizeMilestoneOn(n) ==
    \E sender \in Accounts : \E mid \in 0..n :
        LET r == finalizeMilestone(aidChain, aidToken, balance, sender, mid)
        IN  /\ Commit(r, Call("finalizeMilestone", sender, 0, mid, FALSE, r))
            /\ UNCHANGED <<released, rewarded>>

FinalizeMilestone == FinalizeMilestoneOn(MaxMilestones)

\* voteOnMilestone called by one of the given senders with an id in 0..n.
VoteOnMilestoneBy(senders, n) ==
    \E sender \in senders : \E mid \in 0..n : \E approve \in BOOLEAN :
      \E cb \in Callbacks :
        LET r == voteOnMilestone(aidChain, aidToken, balance, now, sender, mid, approve, cb)
            paid == Amounts(r.calls, "transfer")
            credits == Len(Amounts(r.calls, "mint"))
        IN  /\ cb \in CallbacksAt(aidChain, balance, now, sender, mid, approve)
            /\ Commit(r, Call("voteOnMilestone", sender, 0, mid, approve, r))
            /\ released' = [released EXCEPT ![mid] = @ \o paid]
            /\ rewarded' = [rewarded EXCEPT ![mid] = @ + credits]

VoteOnMilestone == VoteOnMilestoneBy(Accounts, MaxMilestones)

SetAidChainContract ==
    \E sender \in TokenCallers : \E a \in {AidChainAddr, ZeroAddr} :
        LET r == setAidChainContract(aidToken, sender, a)
        IN  /\ r.err = Ok
            /\ aidToken' = r.token
            /\ last' = Call("setAidChainContract", sender, 0, 0, FALSE, NoCalls)
            /\ UNCHANGED <<aidChain, balance, now, released, rewarded,
                           factory, chains, tokens>>

\* block.timestamp advances between transactions.
Tick ==
    /\ now < MaxTime
    /\ now' = now + 1
    /\ last' = Call("tick", ZeroAddr, 0, 0, FALSE, NoCalls)
    /\ UNCHANGED <<aidChain, aidToken, balance, released, rewarded,
                   factory, chains, tokens>>

Next ==
    \/ VerifyZkKyc
    \/ FundProject
    \/ CreateMilestone
    \/ SubmitMilestoneProof
    \/ FinalizeMilestone
    \/ VoteOnMilestone
    \/ SetAidChainContract
    \/ Tick

Spec == Init /\ [][Next]_vars

\* ------------------------------------------- a longer milestone table
\* The same pair with up to MaxCreated milestones and Donor1 as its donor.
NextMilestones ==
    \/ VerifyZkKyc
    \/ FundProjectBy({Donor1})
    \/ CreateMilestoneUpTo(MaxCreated)
    \/ SubmitMilestoneProofOn(MaxCreated)
    \/ FinalizeMilestoneOn(MaxCreated)
    \/ VoteOnMilestoneBy({Donor1}, MaxCreated)
    \/ Tick

SpecMilestones == Init /\ [][NextMilestones]_vars

\* ------------------------------------------- a goal within reach
\* A funding goal one donor can reach alone.
LowGoal == InitialBalance

\* The first deployCompleteSystem of the factory, with the low goal.
LowGoalSystem ==
    deployCompleteSystem(FreshFactory, NoProxies, NoProxies, Admin, Creator,
                         "Relief", LowGoal, 0)

InitLowGoal ==
    /\ aidChain = LowGoalSystem.chains[AidChainAddr]
    /\ aidToken = LowGoalSystem.tokens[AidTokenAddr]
    /\ factory = LowGoalSystem.factory
    /\ chains = NoProxies
    /\ tokens = NoProxies
    /\ balance = [a \in Holders |-> CASE a = Donor1 -> InitialBalance - 1
                                       [] a = Donor2 -> InitialBalance
                                       [] OTHER -> 0]
    /\ now = 0
    /\ released = << >>
    /\ rewarded = << >>
    /\ last = Call("deployCompleteSystem", Admin, 0, 0, FALSE, NoCalls)

\* The life of a pair whose funding goal the donors can reach and exceed.
SpecLowGoal == InitLowGoal /\ [][Next]_vars

\* ---------------------------------------------------------- the factory
FactoryCall(op, sender, token, creator, name, fundingGoal, r) ==
    [op |-> op, sender |-> sender, token |-> token, creator |-> creator,
     name |-> name, fundingGoal |-> fundingGoal, proxy |-> r.proxy]

\* The factory call commits its outcome r.
CommitFactory(r, call) ==
    /\ r.err = Ok
    /\ factory' = r.factory
    /\ chains' = r.chains
    /\ tokens' = r.tokens
    /\ last' = call
    /\ UNCHANGED <<aidChain, aidToken, balance, now, released, rewarded>>

FactoryCallers == {Admin, Creator}
Creators == {Creator, Donor1}
Proxies == Cardinality(factory.isDeployedByFactory)

\* The factory right after its constructor: nothing is deployed yet.
InitFactory ==
    /\ factory = FreshFactory
    /\ chains = NoProxies
    /\ tokens = NoProxies
    /\ aidChain = Blank
    /\ aidToken = Blank
    /\ balance = [a \in Holders |-> 0]
    /\ now = 0
    /\ released = << >>
    /\ rewarded = << >>
    /\ last = FactoryCall("constructor", Admin, ZeroAddr, ZeroAddr, "", 0,
                          [proxy |-> FactoryAddr])

DeployAidToken ==
    \E sender \in FactoryCallers :
        LET r == deployAidToken(factory, chains, tokens, sender)
        IN  /\ Proxies + 1 <= MaxProxies
            /\ CommitFactory(r, FactoryCall("deployAidToken", sender, ZeroAddr,
                                            ZeroAddr, "", 0, r))

\* deployAidChain with inputs from the given sets.
DeployAidChainFor(creators, names, fundingGoals) ==
    \E sender \in FactoryCallers : \E token \in Handles : \E creator \in creators :
      \E name \in names : \E fundingGoal \in fundingGoals :
        LET r == deployAidChain(factory, chains, tokens, sender, token, creator,
                                name, fundingGoal, now)
        IN  /\ Proxies + 1 <= MaxProxies
            /\ token \in DOMAIN tokens
            /\ CommitFactory(r, FactoryCall("deployAidChain", sender, token,
                                            creator, name, fundingGoal, r))

DeployAidChain == DeployAidChainFor(Creators, Names, FundingGoals)

\* deployCompleteSystem with inputs from the given sets.
DeployCompleteSystemFor(creators, names, fundingGoals) ==
    \E sender \in FactoryCallers : \E creator \in creators :
      \E name \in names : \E fundingGoal \in fundingGoals :
        LET r == deployCompleteSystem(factory, chains, tokens, sender, creator,
                                      name, fundingGoal, now)
        IN  /\ Proxies + 2 <= MaxProxies
            /\ CommitFactory(r, FactoryCall("deployCompleteSystem", sender,
                                            r.factory.deployments[Len(r.factory.deployments)].aidTokenProxy,
                                            creator, name, fundingGoal, r))

DeployCompleteSystem == DeployCompleteSystemFor(Creators, Names, FundingGoals)

NextFactory ==
    \/ DeployAidToken
    \/ DeployAidChain
    \/ DeployCompleteSystem
    \/ Tick

SpecFactory == InitFactory /\ [][NextFactory]_vars

\* Mutant: the proxies share one storage.
StoreAt_shared(storage, a, s) == [x \in DOMAIN storage |-> s]

\* ------------------------------------- the factory and its instances
\* Each proxy has its own storage: a call on the proxy at address a writes
\* the storage of a and of no other proxy.
StoreAt(storage, a, s) == [storage EXCEPT ![a] = s]

InstanceCall(op, sender, proxy, value, r) ==
    [op |-> op, sender |-> sender, proxy |-> proxy, value |-> value, calls |-> r.calls]

\* A call on the instance at address self commits its outcome r.
CommitAt(self, r, call) ==
    /\ r.err = Ok
    /\ chains' = StoreAt(chains, self, r.chain)
    /\ tokens' = StoreAt(tokens, chains[self].aidToken, r.token)
    /\ balance' = r.bal
    /\ last' = call
    /\ UNCHANGED <<aidChain, aidToken, now, released, rewarded, factory>>

\* A call on the ledger at address ledger commits its outcome r.
CommitLedger(ledger, r, call) ==
    /\ r.err = Ok
    /\ tokens' = StoreAt(tokens, ledger, r.token)
    /\ last' = call
    /\ UNCHANGED <<aidChain, aidToken, balance, now, released, rewarded,
                   factory, chains>>

\* The instances whose ledger pointer is a ledger in existence.
Instances == {a \in DOMAIN chains : chains[a].aidToken \in DOMAIN tokens}

\* The factory right after its constructor; the donors hold their wallets.
InitInstances ==
    /\ factory = FreshFactory
    /\ chains = NoProxies
    /\ tokens = NoProxies
    /\ aidChain = Blank
    /\ aidToken = Blank
    /\ balance = [a \in Holders |-> CASE a = Donor1 -> InitialBalance - 1
                                      [] a = Donor2 -> InitialBalance
                                      [] OTHER -> 0]
    /\ now = 0
    /\ released = << >>
    /\ rewarded = << >>
    /\ last = FactoryCall("constructor", Admin, ZeroAddr, ZeroAddr, "", 0,
                          [proxy |-> FactoryAddr])

VerifyZkKycAt ==
    \E self \in Handles : \E sender \in {Donor1} :
        /\ self \in Instances
        /\ LET r == verifyZkKycAt(self, chains[self], tokens[chains[self].aidToken],
                                  balance)
           IN  CommitAt(self, r, InstanceCall("verifyZkKyc", sender, self, 0, r))

FundProjectAt ==
    \E self \in Handles : \E sender \in {Donor2} : \E value \in FundingAmounts :
        /\ self \in Instances
        /\ value <= balance[sender]
        /\ LET r == fundProjectAt(self, chains[self], tokens[chains[self].aidToken],
                                  balance, now, sender, value)
           IN  CommitAt(self, r, InstanceCall("fundProject", sender, self, value, r))

CreateMilestoneAt ==
    \E self \in Handles : \E sender \in Creators :
        /\ self \in Instances
        /\ chains[self].milestoneCount < MaxMilestones
        /\ LET r == createMilestone(chains[self], tokens[chains[self].aidToken],
                                    balance, now, sender, 2, 1)
           IN  CommitAt(self, r, InstanceCall("createMilestone", sender, self, 0, r))

\* setAidChainContract called on a ledger the factory created.
SetAidChainContractAt ==
    \E ledger \in Handles : \E sender \in FactoryCallers :
      \E a \in Handles \cup {ZeroAddr} :
        /\ ledger \in DOMAIN tokens
        /\ a \in DOMAIN chains \cup {ZeroAddr}
        /\ LET r == setAidChainContract(tokens[ledger], sender, a)
           IN  CommitLedger(ledger, r, InstanceCall("setAidChainContract", sender,
                                                    ledger, 0, NoCalls))

\* mint called on a ledger directly, by an account.
Mint ==
    \E ledger \in Handles : \E sender \in FactoryCallers : \E amount \in 1..MaxMinted :
        /\ ledger \in DOMAIN tokens
        /\ tokens[ledger].balanceOf[Donor1] + amount <= MaxMinted
        /\ LET r == mint(tokens[ledger], sender, Donor1, amount)
           IN  CommitLedger(ledger, r, InstanceCall("mint", sender, ledger, amount,
                                                    NoCalls))

NextInstances ==
    \/ DeployAidToken
    \/ DeployAidChainFor({Donor1}, {"Relief"}, {FUNDING_GOAL})
    \/ DeployCompleteSystemFor(Creators, {"Relief"}, {FUNDING_GOAL})
    \/ VerifyZkKycAt
    \/ FundProjectAt
    \/ CreateMilestoneAt
    \/ SetAidChainContractAt
    \/ Mint

SpecInstances == InitInstances /\ [][NextInstances]_vars

\* ------------------------------------------ upgrades and ownership
UpgradeAidChain ==
    \E sender \in Accounts \cup {Admin} : \E newImplementation \in NewImplementations :
        LET r == upgradeToAndCall(aidChain, sender, newImplementation)
        IN  /\ r.err = Ok
            /\ aidChain' = r.storage
            /\ last' = Call("AidChain.upgradeToAndCall", sender, 0, 0, FALSE, NoCalls)
            /\ UNCHANGED <<aidToken, balance, now, released, rewarded,
                           factory, chains, tokens>>

UpgradeAidToken ==
    \E sender \in Accounts \cup {Admin} : \E newImplementation \in NewImplementations :
        LET r == upgradeToAndCall(aidToken, sender, newImplementation)
        IN  /\ r.err = Ok
            /\ aidToken' = r.storage
            /\ last' = Call("AidToken.upgradeToAndCall", sender, 0, 0, FALSE, NoCalls)
            /\ UNCHANGED <<aidChain, balance, now, released, rewarded,
                           factory, chains, tokens>>

\* transferOwnership called on the instance.
TransferAidChainOwnership ==
    \E sender \in Accounts \cup {Admin} : \E newOwner \in {Creator, Donor1} :
        LET r == transferOwnership(aidChain, sender, newOwner)
        IN  /\ r.err = Ok
            /\ aidChain' = r.token
            /\ last' = Call("AidChain.transferOwnership", sender, 0, 0, FALSE, NoCalls)
            /\ UNCHANGED <<aidToken, balance, now, released, rewarded,
                           factory, chains, tokens>>

\* transferOwnership called on the ledger.
TransferAidTokenOwnership ==
    \E sender \in Accounts \cup {Admin} : \E newOwner \in {Admin, Donor2} :
        LET r == transferOwnership(aidToken, sender, newOwner)
        IN  /\ r.err = Ok
            /\ aidToken' = r.token
            /\ last' = Call("AidToken.transferOwnership", sender, 0, 0, FALSE, NoCalls)
            /\ UNCHANGED <<aidChain, balance, now, released, rewarded,
                           factory, chains, tokens>>

NextUpgrade ==
    \/ VerifyZkKyc
    \/ FundProjectBy({Donor2})
    \/ CreateMilestone
    \/ FinalizeMilestone
    \/ VoteOnMilestoneBy({Donor2}, MaxMilestones)
    \/ UpgradeAidChain
    \/ UpgradeAidToken
    \/ TransferAidChainOwnership
    \/ TransferAidTokenOwnership

SpecUpgrade == Init /\ [][NextUpgrade]_vars

\* ---------------------------------------------------- claim helpers
Fund(sender, value) == fundProject(aidChain, aidToken, balance, now, sender, value)
Vote(sender, mid, approve, cb) ==
    voteOnMilestone(aidChain, aidToken, balance, now, sender, mid, approve, cb)
Finalize(sender, mid) == finalizeMilestone(aidChain, aidToken, balance, sender, mid)
Verify == verifyZkKyc(aidChain, aidToken, balance)

\* The outcome r leaves storage, ledger and balances as they are.
NoChange(r) == r.chain = aidChain /\ r.token = aidToken /\ r.bal = balance

MilestoneIds == 1..aidChain.milestoneCount
Ms(mid) == aidChain.milestones[mid]
Min(a, b) == IF a < b THEN a ELSE b

\* The ledger takes a credit from the instance.
LedgerAccepts == AidChainAddr = aidToken.aidChainContract \/ AidChainAddr = aidToken.owner

FundGate(value) ==
    value > 0 /\ aidChain.project.active /\ aidChain.project.zkKycVerified

FundErrors == {"DonationMustBePositive", "ProjectNotActive", "ProjectNotVerified"}

\* ------------------------------------------------------------ claims

\* C1 as stated: in every state, for every caller and attached amount, Fund
\* succeeds iff amount > 0, active and identityVerified; otherwise it fails
\* with one of the three Fund errors and changes no state.
C1_FundGatingAsClaimed ==
    \A sender \in Accounts : \A value \in 0..balance[sender] :
        LET r == Fund(sender, value)
        IN  /\ r.err = Ok <=> FundGate(value)
            /\ r.err # Ok => r.err \in FundErrors /\ NoChange(r)

\* C1 amended: Fund succeeds iff amount > 0, active, identityVerified and the
\* donation reward is zero or the ledger takes the instance's credit; when the
\* three conditions fail it reverts with one of the three Fund errors, when
\* only the ledger refuses it reverts with the ledger's "Not authorized"; a
\* failed Fund changes no state.
C1_FundGating ==
    \A sender \in Accounts : \A value \in 0..balance[sender] :
        LET r == Fund(sender, value)
            credited == aidReward(value) = 0 \/ LedgerAccepts
        IN  /\ r.err = Ok <=> FundGate(value) /\ credited
            /\ ~FundGate(value) => r.err \in FundErrors
            /\ FundGate(value) /\ ~credited => r.err = "Not authorized"
            /\ r.err # Ok => NoChange(r)

\* A Fund with a zero reward went through while the ledger refuses credits,
\* and a Fund with a nonzero reward is refused in the same state.
C1_Witness ==
    /\ last.op = "fundProject"
    /\ ~LedgerAccepts
    /\ \E sender \in Accounts : \E value \in 0..balance[sender] :
           Fund(sender, value).err = "Not authorized"
    /\ \E sender \in Accounts : Fund(sender, 0).err = "DonationMustBePositive"

\* C2 as stated: once a voter holds a receipt on a milestone, every later
\* attempt of that voter on that milestone fails with AlreadyVoted and leaves
\* the tallies unchanged.
C2_SecondVoteAlreadyVotedAsClaimed ==
    \A mid \in MilestoneIds : \A a \in Accounts :
        aidChain.milestoneVotes[mid][a] =>
            \A approve \in BOOLEAN : \A cb \in Callbacks :
                LET r == Vote(a, mid, approve, cb)
                IN  r.err = "AlreadyVoted" /\ r.chain.milestones = aidChain.milestones

\* What a repeated vote is rejected with: the guards before the receipt check
\* come first.
RepeatedVoteError(mid) ==
    IF Ms(mid).approved THEN "MilestoneAlreadyApproved"
    ELSE IF now >= Ms(mid).votingDeadline THEN "VotingPeriodEnded"
    ELSE "AlreadyVoted"

\* C2 amended: for every (milestone, voter) pair at most one vote succeeds: a
\* vote succeeds only for a voter without receipt and leaves the receipt set
\* for good; every later attempt of that voter on that milestone fails, with
\* AlreadyVoted while the milestone is unapproved and its deadline not reached,
\* else with MilestoneAlreadyApproved or VotingPeriodEnded, and changes no
\* state.
C2_NoDoubleVote ==
    /\ [](\A mid \in MilestoneIds : \A a \in Accounts :
            aidChain.milestoneVotes[mid][a] =>
                \A approve \in BOOLEAN : \A cb \in Callbacks :
                    LET r == Vote(a, mid, approve, cb)
                    IN  r.err = RepeatedVoteError(mid) /\ NoChange(r))
    /\ [][\A mid \in MilestoneIds : \A a \in Accounts :
            /\ aidChain.milestoneVotes[mid][a] => aidChain'.milestoneVotes[mid][a]
            /\ (last'.op = "voteOnMilestone" /\ last'.sender = a /\ last'.mid = mid)
                 => ~aidChain.milestoneVotes[mid][a] /\ aidChain'.milestoneVotes[mid][a]]_vars

\* A voter holds a receipt on a milestone that is still open for voting, and
\* another on a milestone that has been approved since.
C2_Witness ==
    /\ last.op = "voteOnMilestone"
    /\ \E mid \in MilestoneIds : \E a \in Accounts :
           /\ aidChain.milestoneVotes[mid][a]
           /\ Vote(a, mid, TRUE, "accept").err = "AlreadyVoted"

\* C3: a milestone is approved exactly when votesFor > votesAgainst, and it
\* becomes approved only inside a voteOnMilestone on it, with the release paid
\* out of the instance's balance in that same call.
C3_ApprovedIffMajority ==
    /\ [](\A mid \in MilestoneIds : Ms(mid).approved <=> Ms(mid).votesFor > Ms(mid).votesAgainst)
    /\ [][\A mid \in MilestoneIds :
            ~Ms(mid).approved /\ aidChain'.milestones[mid].approved =>
                /\ last'.op = "voteOnMilestone" /\ last'.mid = mid
                /\ balance'[AidChainAddr] =
                       balance[AidChainAddr] - Min(Ms(mid).fundingAmount, balance[AidChainAddr])]_vars

\* A milestone was approved by a vote that outweighed an earlier vote against.
C3_Witness ==
    /\ last.op = "voteOnMilestone" /\ last.approve
    /\ \E mid \in MilestoneIds :
           /\ last.mid = mid /\ Ms(mid).approved
           /\ Ms(mid).votesAgainst > 0
           /\ released[mid] # << >>

\* C4: the step that approves a milestone moves exactly
\* min(fundingAmount, instance balance) to the creator, credits the creator
\* with MILESTONE_COMPLETION_REWARD exactly when that amount is not zero, and a
\* vote that passes its guards is never refused for lack of funds.
C4_ReleaseClamped ==
    /\ [][\A mid \in MilestoneIds :
            ~Ms(mid).approved /\ aidChain'.milestones[mid].approved =>
                LET creator == aidChain.project.creator
                    amt == Min(Ms(mid).fundingAmount, balance[AidChainAddr])
                IN  /\ balance'[creator] = balance[creator] + amt
                    /\ balance'[AidChainAddr] = balance[AidChainAddr] - amt
                    /\ Amounts(last'.calls, "transfer") = IF amt > 0 THEN << amt >> ELSE << >>
                    /\ aidToken'.balanceOf[creator] = aidToken.balanceOf[creator]
                           + (IF amt > 0 THEN MILESTONE_COMPLETION_REWARD ELSE 0)]_vars
    /\ [](\A sender \in Accounts : \A mid \in MilestoneIds : \A approve \in BOOLEAN :
            voteOnMilestoneCheck(aidChain, now, sender, mid) = Ok /\ LedgerAccepts
                => Vote(sender, mid, approve, "accept").err = Ok)

\* A release was clamped: the milestone asked for more than the balance held.
C4_Witness ==
    /\ last.op = "voteOnMilestone"
    /\ \E mid \in MilestoneIds :
           /\ last.mid = mid /\ Ms(mid).approved
           /\ Len(released[mid]) = 1
           /\ released[mid][1] < Ms(mid).fundingAmount
           /\ balance[AidChainAddr] = 0

\* C5: no milestone is paid twice: each milestone causes at most one transfer
\* to the creator and at most one completion reward, and the transfer never
\* exceeds its fundingAmount.
C5_NoDoublePay ==
    \A mid \in MilestoneIds :
        /\ Len(released[mid]) <= 1
        /\ rewarded[mid] <= 1
        /\ \A i \in 1..Len(released[mid]) : released[mid][i] <= Ms(mid).fundingAmount

\* A release during which the creator called voteOnMilestone again from its
\* receive callback.
C5_Witness ==
    /\ last.op = "voteOnMilestone"
    /\ last.nested.op = "voteOnMilestone"
    /\ released[last.mid] # << >>
    /\ rewarded[last.mid] = 1

\* C6 as stated: at every external call issued by Fund or by the release, the
\* reentrancy lock is held, and a call made back into the instance is rejected.
C6_LockHeldAsClaimed ==
    last.op \in {"fundProject", "voteOnMilestone"} =>
        /\ \A i \in 1..Len(last.calls) : last.calls[i].view.status = ENTERED
        /\ last.nested.result # Ok

\* C7 as stated: at every external call of verifyZkKyc, fundProject and the
\* release, the storage already holds every update the call commits.
C7_EffectsFirstAsClaimed ==
    \A i \in 1..Len(last.calls) :
        [last.calls[i].view EXCEPT !.status = aidChain.status] = aidChain

\* C8: fundsRaised, reputationScore, every tally and every donor's reputation
\* never decrease.
C8_Monotonic ==
    [][/\ aidChain'.project.fundsRaised >= aidChain.project.fundsRaised
       /\ aidChain'.project.reputationScore >= aidChain.project.reputationScore
       /\ \A mid \in MilestoneIds :
            /\ aidChain'.milestones[mid].votesFor >= Ms(mid).votesFor
            /\ aidChain'.milestones[mid].votesAgainst >= Ms(mid).votesAgainst
       /\ \A a \in Accounts : aidChain'.donorReputation[a] >= aidChain.donorReputation[a]]_vars

\* Funds were raised, votes were cast on both sides and a release was paid.
C8_Witness ==
    /\ aidChain.project.fundsRaised > 0
    /\ aidChain.project.reputationScore > 0
    /\ \E mid \in MilestoneIds : Ms(mid).votesFor > 0 /\ Ms(mid).votesAgainst > 0
    /\ \E a \in Accounts : aidChain.donorReputation[a] > 0

\* C9: zkKycVerified, completed and approved never return to false; a
\* verifyZkKyc on a verified project fails with ProjectAlreadyVerified, the
\* creator's finalizeMilestone on a completed milestone with
\* MilestoneAlreadyCompleted, any vote on an approved milestone with
\* MilestoneAlreadyApproved, and each leaves the state as it is.
C9_OneWayFlags ==
    /\ [][/\ aidChain.project.zkKycVerified => aidChain'.project.zkKycVerified
          /\ \A mid \in MilestoneIds :
               /\ Ms(mid).completed => aidChain'.milestones[mid].completed
               /\ Ms(mid).approved => aidChain'.milestones[mid].approved]_vars
    /\ [](aidChain.project.zkKycVerified =>
            Verify.err = "ProjectAlreadyVerified" /\ NoChange(Verify))
    /\ [](\A mid \in MilestoneIds :
            /\ Ms(mid).completed =>
                 /\ Finalize(aidChain.project.creator, mid).err = "MilestoneAlreadyCompleted"
                 /\ \A a \in Accounts :
                        Finalize(a, mid).err # Ok /\ NoChange(Finalize(a, mid))
            /\ Ms(mid).approved =>
                 \A a \in Accounts : \A approve \in BOOLEAN : \A cb \in Callbacks :
                     LET r == Vote(a, mid, approve, cb)
                     IN  r.err = "MilestoneAlreadyApproved" /\ NoChange(r))

\* All three flags are set.
C9_Witness ==
    /\ aidChain.project.zkKycVerified
    /\ \E mid \in MilestoneIds : Ms(mid).completed /\ Ms(mid).approved

\* C10: every approved milestone is completed.
C10_ApprovedImpliesCompleted ==
    \A mid \in MilestoneIds : Ms(mid).approved => Ms(mid).completed

\* A milestone was finalized and then approved by a vote.
C10_Witness ==
    \E mid \in MilestoneIds :
        Ms(mid).approved /\ Ms(mid).completed /\ aidChain.milestoneVotes[mid][Donor1]

\* A vote on the milestone can be tallied now.
VotingOpen(mid) ==
    Ms(mid).completed /\ ~Ms(mid).approved /\ now < Ms(mid).votingDeadline

\* C11: a milestone's votesFor or votesAgainst changes only in a step taken
\* while the milestone is completed, not approved and the time is strictly
\* before its votingDeadline; in every other state both tallies are frozen.
C11_TalliesFrozenOutsideWindow ==
    [][\A mid \in MilestoneIds :
          \/ VotingOpen(mid)
          \/ /\ aidChain'.milestones[mid].votesFor = Ms(mid).votesFor
             /\ aidChain'.milestones[mid].votesAgainst = Ms(mid).votesAgainst]_vars

\* A milestone that holds votes against has reached its deadline unapproved.
C11_Witness ==
    \E mid \in MilestoneIds :
        /\ Ms(mid).votesAgainst > 0
        /\ Ms(mid).completed /\ ~Ms(mid).approved
        /\ now >= Ms(mid).votingDeadline

\* The sum of the amounts of a donation history.
RECURSIVE SumAmounts(_)
SumAmounts(h) == IF h = << >> THEN 0 ELSE Head(h).amount + SumAmounts(Tail(h))

FirstViolated(sender, mid) ==
    IF mid \notin MilestoneIds THEN "InvalidMilestoneId"
    ELSE IF ~Ms(mid).completed THEN "MilestoneNotCompleted"
    ELSE IF Ms(mid).approved THEN "MilestoneAlreadyApproved"
    ELSE IF now >= Ms(mid).votingDeadline THEN "VotingPeriodEnded"
    ELSE IF aidChain.milestoneVotes[mid][sender] THEN "AlreadyVoted"
    ELSE IF aidChain.projectDonations[sender] = 0 THEN "NotADonor"
    ELSE Ok

\* C13: voteOnMilestone reports the first violated precondition in the order
\* InvalidMilestoneId, MilestoneNotCompleted, MilestoneAlreadyApproved,
\* VotingPeriodEnded, AlreadyVoted, NotADonor, and changes nothing then.
C13_VoteErrorOrder ==
    \A sender \in Accounts : \A mid \in 0..(aidChain.milestoneCount + 1) :
      \A approve \in BOOLEAN : \A cb \in Callbacks :
        LET r == Vote(sender, mid, approve, cb)
        IN  FirstViolated(sender, mid) # Ok =>
                r.err = FirstViolated(sender, mid) /\ NoChange(r)

\* A voter holds a receipt on a milestone that was approved since and whose
\* deadline has passed, while a caller who never donated looks on.
C13_Witness ==
    \E mid \in MilestoneIds : \E a \in Accounts : \E z \in Accounts :
        /\ aidChain.milestoneVotes[mid][a] /\ Ms(mid).approved
        /\ now >= Ms(mid).votingDeadline
        /\ aidChain.projectDonations[z] = 0
        /\ Vote(a, mid, TRUE, "accept").err = "MilestoneAlreadyApproved"

\* C14: once the time has reached a milestone's votingDeadline every vote on
\* it fails, and this stays so: the deadline does not move, an unapproved
\* milestone stays unapproved and causes no transfer to the creator.
C14_DeadlineIsFinal ==
    /\ [](\A mid \in MilestoneIds : now >= Ms(mid).votingDeadline =>
            \A a \in Accounts : \A approve \in BOOLEAN : \A cb \in Callbacks :
                LET r == Vote(a, mid, approve, cb)
                IN  r.err # Ok /\ NoChange(r))
    /\ [][\A mid \in MilestoneIds : now >= Ms(mid).votingDeadline =>
            /\ aidChain'.milestones[mid].votingDeadline = Ms(mid).votingDeadline
            /\ now' >= now
            /\ ~Ms(mid).approved =>
                   /\ ~aidChain'.milestones[mid].approved
                   /\ released'[mid] = released[mid]]_vars

\* A finalized milestone timed out unapproved although a donor who has not
\* voted could outweigh the votes against, and the instance holds funds.
C14_Witness ==
    \E mid \in MilestoneIds : \E a \in Accounts :
        /\ Ms(mid).completed /\ ~Ms(mid).approved
        /\ now >= Ms(mid).votingDeadline
        /\ ~aidChain.milestoneVotes[mid][a]
        /\ aidChain.projectDonations[a] > Ms(mid).votesAgainst
        /\ balance[AidChainAddr] > 0
        /\ released[mid] = << >>

\* ------------------------------------------- claims on failing calls
Create(sender, fundingAmount, votingDuration) ==
    createMilestone(aidChain, aidToken, balance, now, sender, fundingAmount, votingDuration)
Submit(sender, mid, proof) ==
    submitMilestoneProof(aidChain, aidToken, balance, sender, mid, proof)

\* Every identity that may call: the accounts and the factory's owner.
Callers == Accounts \cup {Admin}
\* Milestone ids a caller may pass: the existing ones, 0 and the next one.
AnyIds == 0..(aidChain.milestoneCount + 1)

\* The outcome r of a factory call leaves factory and proxies as they are.
NoFactoryChange(r) ==
    r.factory = factory /\ r.chains = chains /\ r.tokens = tokens

C16_OnlyCreatorAsClaimed ==
    \A sender \in Callers \ {aidChain.project.creator} :
        /\ \A fundingAmount \in FundingAmounts : \A votingDuration \in VotingDurations :
               LET r == Create(sender, fundingAmount, votingDuration)
               IN  r.err = "NotProjectCreator" /\ NoChange(r)
        /\ \A mid \in AnyIds :
               /\ \A proof \in Proofs :
                      LET r == Submit(sender, mid, proof)
                      IN  r.err = "NotProjectCreator" /\ NoChange(r)
               /\ LET r == Finalize(sender, mid)
                  IN  r.err = "NotProjectCreator" /\ NoChange(r)

\* What a caller other than the creator is refused with on a milestone id.
NonCreatorError(mid) ==
    IF mid \in MilestoneIds THEN "NotProjectCreator" ELSE "InvalidMilestoneId"

\* C16 amended: the three operations succeed only for the creator; for any
\* other caller createMilestone fails with NotProjectCreator, and
\* submitMilestoneProof and finalizeMilestone fail with NotProjectCreator on
\* an existing milestone id and with InvalidMilestoneId on any other id; each
\* changes nothing.
C16_OnlyCreator ==
    \A sender \in Callers :
        /\ \A fundingAmount \in FundingAmounts : \A votingDuration \in VotingDurations :
               LET r == Create(sender, fundingAmount, votingDuration)
               IN  IF sender = aidChain.project.creator THEN r.err = Ok
                   ELSE r.err = "NotProjectCreator" /\ NoChange(r)
        /\ \A mid \in AnyIds :
               /\ \A proof \in Proofs :
                      LET r == Submit(sender, mid, proof)
                      IN  /\ r.err = Ok => sender = aidChain.project.creator
                          /\ sender # aidChain.project.creator =>
                                 r.err = NonCreatorError(mid) /\ NoChange(r)
               /\ LET r == Finalize(sender, mid)
                  IN  /\ r.err = Ok => sender = aidChain.project.creator
                      /\ sender # aidChain.project.creator =>
                             r.err = NonCreatorError(mid) /\ NoChange(r)

\* The creator has just submitted a proof for an open milestone, which a
\* donor and the factory's owner are refused to finalize.
C16_Witness ==
    /\ last.op = "submitMilestoneProof"
    /\ last.sender = aidChain.project.creator
    /\ Finalize(Creator, last.mid).err = Ok
    /\ Finalize(Donor1, last.mid).err = "NotProjectCreator"
    /\ Submit(Admin, last.mid, "QmProofA").err = "NotProjectCreator"
    /\ Finalize(Admin, last.mid + 1).err = "InvalidMilestoneId"

\* C17: the creator's submitMilestoneProof on an existing milestone that is
\* not completed replaces proofIpfsHash and changes nothing else (completed
\* stays false), as often as it is repeated; on a completed milestone it
\* fails with MilestoneAlreadyCompleted, and proofIpfsHash never changes once
\* the milestone is completed.
C17_ProofReplacedUntilFinalized ==
    /\ [](\A mid \in MilestoneIds : \A proof \in Proofs :
            LET r == Submit(aidChain.project.creator, mid, proof)
            IN  IF Ms(mid).completed
                THEN r.err = "MilestoneAlreadyCompleted" /\ NoChange(r)
                ELSE /\ r.err = Ok
                     /\ r.chain = [aidChain EXCEPT !.milestones[mid].proofIpfsHash = proof]
                     /\ ~r.chain.milestones[mid].completed
                     /\ r.token = aidToken /\ r.bal = balance)
    /\ [][\A mid \in MilestoneIds : Ms(mid).completed =>
            aidChain'.milestones[mid].proofIpfsHash = Ms(mid).proofIpfsHash]_vars

\* A second proof has replaced the first on a milestone that is not
\* completed, and the first could be put back.
C17_Witness ==
    /\ last.op = "submitMilestoneProof"
    /\ ~Ms(last.mid).completed
    /\ Ms(last.mid).proofIpfsHash = "QmProofB"
    /\ Submit(Creator, last.mid, "QmProofA").chain.milestones[last.mid].proofIpfsHash
           = "QmProofA"

\* C18: milestone ids are 1, 2, ... in creation order: the id list is
\* [1 .. milestoneCount], a createMilestone stores under the next id a
\* milestone with completed = approved = false, both tallies 0, an empty
\* proofIpfsHash and votingDeadline = now + votingDuration, and no milestone
\* is removed nor its id, fundingAmount or votingDeadline changed.
C18_SequentialIds ==
    /\ [](/\ aidChain.projectMilestones = [i \in 1..aidChain.milestoneCount |-> i]
          /\ Len(aidChain.milestones) = aidChain.milestoneCount
          /\ \A mid \in MilestoneIds : Ms(mid).id = mid)
    /\ [](\A fundingAmount \in FundingAmounts : \A votingDuration \in VotingDurations :
            LET r == Create(aidChain.project.creator, fundingAmount, votingDuration)
                n == aidChain.milestoneCount + 1
            IN  /\ r.err = Ok
                /\ r.chain.milestoneCount = n
                /\ r.chain.projectMilestones = Append(aidChain.projectMilestones, n)
                /\ r.chain.milestones[n] =
                       [ id |-> n, projectId |-> 1, fundingAmount |-> fundingAmount,
                         proofIpfsHash |-> "", completed |-> FALSE, approved |-> FALSE,
                         votesFor |-> 0, votesAgainst |-> 0,
                         votingDeadline |-> now + votingDuration ])
    /\ [][/\ aidChain'.milestoneCount \in
                 {aidChain.milestoneCount, aidChain.milestoneCount + 1}
          /\ \A mid \in MilestoneIds :
                /\ aidChain'.milestones[mid].id = Ms(mid).id
                /\ aidChain'.milestones[mid].fundingAmount = Ms(mid).fundingAmount
                /\ aidChain'.milestones[mid].votingDeadline = Ms(mid).votingDeadline]_vars

\* Two milestones exist, created at different times; the first has been
\* voted on and approved.
C18_Witness ==
    /\ aidChain.milestoneCount = 2
    /\ aidChain.projectMilestones = << 1, 2 >>
    /\ Ms(1).approved /\ Ms(1).votesFor > 0
    /\ Ms(2).votingDeadline > Ms(1).votingDeadline
    /\ Ms(2).fundingAmount # Ms(1).fundingAmount

\* C19: the instance created by a deployment holds one project with id 1,
\* the creator, name and fundingGoal passed, fundsRaised = 0,
\* reputationScore = 0, active, not verified and no milestone, and its owner
\* is the creator, not the factory that deployed it.
C19_InitializedProject ==
    [][\A a \in (DOMAIN chains') \ (DOMAIN chains) :
          LET c == chains'[a]
          IN  /\ c.initialized
              /\ c.project.id = 1
              /\ c.project.creator = last'.creator
              /\ c.project.name = last'.name
              /\ c.project.fundingGoal = last'.fundingGoal
              /\ c.project.fundsRaised = 0
              /\ c.project.reputationScore = 0
              /\ c.project.active
              /\ ~c.project.zkKycVerified
              /\ c.milestoneCount = 0
              /\ c.milestones = << >>
              /\ c.projectMilestones = << >>
              /\ c.aidToken = last'.token
              /\ c.owner = last'.creator
              /\ c.owner \notin {FactoryAddr, factory.owner}]_vars

\* A deployment has just created an instance for a creator.
C19_Witness ==
    /\ last.op \in {"deployAidChain", "deployCompleteSystem"}
    /\ last.proxy \in DOMAIN chains
    /\ chains[last.proxy].project.name = "Relief"
    /\ chains[last.proxy].project.fundingGoal = FUNDING_GOAL
    /\ chains[last.proxy].owner = Donor1

\* C20 as stated: initialize succeeds only with fundingGoal > 0, a non-empty
\* name and on an instance not initialized before: every instance holds a
\* project with a positive goal and a name, and an initialize on it fails and
\* leaves it as it is.
C20_InitializeGuardedAsClaimed ==
    \A a \in DOMAIN chains :
        /\ chains[a].project.fundingGoal > 0
        /\ chains[a].project.name # ""
        /\ \A token \in DOMAIN tokens : \A creator \in Creators : \A name \in Names :
             \A fundingGoal \in FundingGoals :
               LET r == initialize(chains[a], token, creator, name, fundingGoal, now)
               IN  r.err # Ok /\ r.chain = chains[a]

\* The ledger after crediting amount to one account and nothing else.
Credited(to, amount) ==
    [aidToken EXCEPT !.balanceOf[to] = aidToken.balanceOf[to] + amount]

\* C21 as stated: verifyZkKyc has no caller restriction; while the project is
\* not verified the call sets zkKycVerified and credits the creator exactly
\* VERIFICATION_REWARD; once it is verified the call fails with
\* ProjectAlreadyVerified.
C21_FirstVerifyAsClaimed ==
    IF aidChain.project.zkKycVerified
    THEN Verify.err = "ProjectAlreadyVerified" /\ NoChange(Verify)
    ELSE /\ Verify.err = Ok
         /\ Verify.chain = [aidChain EXCEPT !.project.zkKycVerified = TRUE]
         /\ Verify.token = Credited(aidChain.project.creator, VERIFICATION_REWARD)

\* C21 amended: verifyZkKyc has no caller restriction; while the project is
\* not verified and the ledger takes the instance's credit, the call sets
\* zkKycVerified and credits the creator (not the caller) exactly
\* VERIFICATION_REWARD, changing nothing else; while the ledger refuses the
\* credit the call reverts with the ledger's "Not authorized" and the project
\* stays unverified; once verified every call fails with
\* ProjectAlreadyVerified and changes nothing, so the verification reward is
\* credited at most once.
C21_VerifyOnce ==
    /\ [](IF aidChain.project.zkKycVerified
          THEN Verify.err = "ProjectAlreadyVerified" /\ NoChange(Verify)
          ELSE IF LedgerAccepts
          THEN /\ Verify.err = Ok
               /\ Verify.chain = [aidChain EXCEPT !.project.zkKycVerified = TRUE]
               /\ Verify.token = Credited(aidChain.project.creator, VERIFICATION_REWARD)
               /\ Verify.bal = balance
          ELSE Verify.err = "Not authorized" /\ NoChange(Verify))
    /\ [][/\ aidChain.project.zkKycVerified => last'.op # "verifyZkKyc"
          /\ last'.op = "verifyZkKyc" =>
                /\ aidChain'.project.zkKycVerified
                /\ aidToken' = Credited(aidChain.project.creator, VERIFICATION_REWARD)]_vars

\* A donor has verified the project: the creator holds the reward, the caller
\* holds nothing, and a further call is refused.
C21_Witness ==
    /\ last.op = "verifyZkKyc"
    /\ last.sender = Donor1
    /\ aidChain.project.zkKycVerified
    /\ aidToken.balanceOf[Creator] = VERIFICATION_REWARD
    /\ aidToken.balanceOf[Donor1] = 0
    /\ Verify.err = "ProjectAlreadyVerified"

\* C22: a successful fundProject with msg.value = value by a donor raises
\* fundsRaised, the donor's projectDonations and donorReputation and the
\* instance's balance by value each, appends exactly one record to the donor's
\* history, credits the donor floor(value * DONATION_REWARD_MULTIPLIER / 1 ether)
\* on the ledger with no ledger call when that is zero, and leaves milestones,
\* vote receipts and every other donor's records as they were.
C22_FundEffects ==
    \A sender \in Accounts : \A value \in 1..balance[sender] :
        LET r == Fund(sender, value)
            product == value * DONATION_REWARD_MULTIPLIER
            reward == CHOOSE q \in 0..value :
                          q * ONE_ETHER <= product /\ product < (q + 1) * ONE_ETHER
        IN  r.err = Ok =>
            /\ r.chain.project.fundsRaised = aidChain.project.fundsRaised + value
            /\ r.chain.projectDonations[sender] = aidChain.projectDonations[sender] + value
            /\ r.chain.donorReputation[sender] = aidChain.donorReputation[sender] + value
            /\ r.bal[AidChainAddr] = balance[AidChainAddr] + value
            /\ r.bal[sender] = balance[sender] - value
            /\ Len(r.chain.donorHistory[sender]) = Len(aidChain.donorHistory[sender]) + 1
            /\ r.token = Credited(sender, reward)
            /\ IF reward = 0
               THEN r.calls = << >>
               ELSE /\ Len(r.calls) = 1
                    /\ r.calls[1].kind = "mint"
                    /\ r.calls[1].to = sender
                    /\ r.calls[1].amount = reward
            /\ r.chain.milestones = aidChain.milestones
            /\ r.chain.milestoneCount = aidChain.milestoneCount
            /\ r.chain.projectMilestones = aidChain.projectMilestones
            /\ r.chain.milestoneVotes = aidChain.milestoneVotes
            /\ [r.chain.project EXCEPT !.fundsRaised = 0] =
               [aidChain.project EXCEPT !.fundsRaised = 0]
            /\ \A d \in Accounts \ {sender} :
                /\ r.chain.projectDonations[d] = aidChain.projectDonations[d]
                /\ r.chain.donorReputation[d] = aidChain.donorReputation[d]
                /\ r.chain.donorHistory[d] = aidChain.donorHistory[d]
                /\ r.bal[d] = balance[d]

\* Both donors have funded: donor1 a value whose reward rounds down to zero
\* (no ledger call), then donor2 a value that earns one token, with a
\* milestone and a vote already stored.
C22_Witness ==
    /\ last.op = "fundProject"
    /\ last.sender = Donor2
    /\ last.value = 2
    /\ Len(last.calls) = 1
    /\ aidToken.balanceOf[Donor2] = 1
    /\ aidChain.projectDonations[Donor1] = 1
    /\ aidToken.balanceOf[Donor1] = 0
    /\ aidChain.milestoneCount = 1
    /\ aidChain.milestoneVotes[1][Donor1]

\* The record fundProject stores for a donation.
Donation(donor, amount) ==
    [donor |-> donor, amount |-> amount, timestamp |-> now, projectId |-> 1]

\* C23: a donor's history is append-only.  Every successful fundProject by
\* the donor adds exactly one record (donor, amount, timestamp, projectId 1)
\* at the end; no other step changes any history, so stored records are never
\* modified, reordered or deleted; a donor who has not donated has an empty
\* history, so after a first donation it is exactly that one record.
C23_HistoryAppendOnly ==
    /\ [](\A sender \in Accounts : \A value \in 1..balance[sender] :
            LET r == Fund(sender, value)
            IN  r.err = Ok =>
                /\ r.chain.donorHistory[sender] =
                       aidChain.donorHistory[sender] \o << Donation(sender, value) >>
                /\ aidChain.projectDonations[sender] = 0 =>
                       r.chain.donorHistory[sender] = << Donation(sender, value) >>)
    /\ [](\A a \in Accounts :
            aidChain.projectDonations[a] = 0 <=> aidChain.donorHistory[a] = << >>)
    /\ [][\A a \in Accounts :
            /\ aidChain'.donorHistory[a] # aidChain.donorHistory[a] =>
                /\ last'.op = "fundProject"
                /\ last'.sender = a
                /\ aidChain'.donorHistory[a] =
                       aidChain.donorHistory[a] \o << Donation(a, last'.value) >>
            /\ aidChain'.projectDonations[a] # aidChain.projectDonations[a] =>
                   Len(aidChain'.donorHistory[a]) = Len(aidChain.donorHistory[a]) + 1]_vars

\* donor2 has donated twice at different times: the history holds the two
\* records in the order of the donations.
C23_Witness ==
    /\ last.op = "fundProject"
    /\ last.sender = Donor2
    /\ Len(aidChain.donorHistory[Donor2]) = 2
    /\ aidChain.donorHistory[Donor2][1].timestamp = 0
    /\ aidChain.donorHistory[Donor2][2].timestamp = 1
    /\ aidChain.donorHistory[Donor1] = << >>

\* Who can send a call to a ledger: an account, or an instance running one
\* of its handlers.
MintCallers == Accounts \cup {Admin} \cup DOMAIN chains

\* C24 as stated: on every ledger, mint succeeds only when the caller is the
\* instance bound to the ledger (aidChainContract); a mint attempted by any
\* other identity (another instance, a donor, the creator, the factory's
\* owner) fails with "Not authorized" and changes no balance.
C24_OnlyBoundInstanceMintsAsClaimed ==
    \A ledger \in DOMAIN tokens : \A sender \in MintCallers :
      \A to \in Accounts : \A amount \in 1..MaxMinted :
        LET r == mint(tokens[ledger], sender, to, amount)
        IN  sender # tokens[ledger].aidChainContract =>
                r.err = "Not authorized" /\ r.token = tokens[ledger]

\* C25: a successful deployCompleteSystem creates a new ledger and a new
\* instance; the instance's ledger pointer is the new ledger, the ledger's
\* aidChainContract is the new instance and no other, the instance is owned
\* by the creator passed, the ledger by the factory's owner, both proxies are
\* in isDeployedByFactory and nothing else is added to it, and exactly one
\* entry holding the two proxies and their implementations is appended to
\* deployments.
C25_CompleteSystemWired ==
    [][last'.op = "deployCompleteSystem" /\ factory' # factory =>
        LET d == factory'.deployments[Len(factory'.deployments)]
            ledger == d.aidTokenProxy
            instance == d.aidChainProxy
        IN  /\ ledger \notin DOMAIN tokens /\ ledger \in DOMAIN tokens'
            /\ instance \notin DOMAIN chains /\ instance \in DOMAIN chains'
            /\ DOMAIN tokens' = DOMAIN tokens \cup {ledger}
            /\ DOMAIN chains' = DOMAIN chains \cup {instance}
            /\ chains'[instance].aidToken = ledger
            /\ tokens'[ledger].aidChainContract = instance
            /\ chains'[instance].owner = last'.creator
            /\ chains'[instance].project.creator = last'.creator
            /\ tokens'[ledger].owner = factory.owner
            /\ factory'.isDeployedByFactory =
                   factory.isDeployedByFactory \cup {ledger, instance}
            /\ factory'.deployments = Append(factory.deployments, d)
            /\ d.aidTokenImplementation = tokens'[ledger].implementation
            /\ d.aidChainImplementation = chains'[instance].implementation
            /\ Cardinality({ledger, instance, d.aidTokenImplementation,
                            d.aidChainImplementation}) = 4]_vars

\* A second complete system has just been deployed for donor1, after one for
\* the creator.
C25_Witness ==
    /\ last.op = "deployCompleteSystem"
    /\ last.creator = Donor1
    /\ Len(factory.deployments) = 2
    /\ chains[factory.deployments[1].aidChainProxy].owner = Creator
    /\ chains[last.proxy].owner = Donor1
    /\ tokens[last.token].owner = Admin
    /\ tokens[last.token].aidChainContract = last.proxy

\* The three deployment calls of the factory made by sender, with every
\* combination of the other inputs.
DeployAttempts(sender) ==
    {deployAidToken(factory, chains, tokens, sender)}
    \cup {deployAidChain(factory, chains, tokens, sender, token, creator, name,
                         fundingGoal, now) :
            token \in DOMAIN tokens \cup {ZeroAddr}, creator \in Creators \cup {ZeroAddr},
            name \in Names, fundingGoal \in FundingGoals}
    \cup {deployCompleteSystem(factory, chains, tokens, sender, creator, name,
                               fundingGoal, now) :
            creator \in Creators \cup {ZeroAddr}, name \in Names,
            fundingGoal \in FundingGoals}

DeployOps == {"deployAidToken", "deployAidChain", "deployCompleteSystem"}

\* C26: deployAidToken, deployAidChain and deployCompleteSystem succeed only
\* when called by the factory's owner; called by anyone else they fail with
\* OwnableUnauthorizedAccount, whatever the other inputs, and create no
\* proxy, mark nothing in isDeployedByFactory and append no deployment.
C26_OnlyOwnerDeploys ==
    /\ \A sender \in Callers : \A r \in DeployAttempts(sender) :
        /\ r.err = Ok => sender = factory.owner
        /\ sender # factory.owner =>
            /\ r.err = "OwnableUnauthorizedAccount"
            /\ NoFactoryChange(r)
    /\ last.op \in DeployOps => last.sender = factory.owner

\* The owner has deployed a ledger, an instance and a complete system; the
\* same calls by the creator of a project are refused.
C26_Witness ==
    /\ Len(factory.deployments) = 1
    /\ Proxies = 4
    /\ last.op \in DeployOps
    /\ \A r \in DeployAttempts(Creator) : r.err = "OwnableUnauthorizedAccount"
    /\ \E r \in DeployAttempts(Admin) : r.err = Ok

\* deployAidChain called by the factory's owner.
OwnerDeploysAidChain(token, creator, name, fundingGoal) ==
    deployAidChain(factory, chains, tokens, factory.owner, token, creator, name,
                   fundingGoal, now)

\* C27: deployAidChain called by the owner with a null ledger address fails
\* with "Invalid AidToken address"; with a ledger address and a null creator
\* it fails with "Invalid creator address"; with both null the ledger check
\* comes first; in each case no proxy is created and nothing is marked.
C27_NullAddressesRejected ==
    \A token \in DOMAIN tokens \cup {ZeroAddr} : \A creator \in Creators \cup {ZeroAddr} :
      \A name \in Names : \A fundingGoal \in FundingGoals :
        LET r == OwnerDeploysAidChain(token, creator, name, fundingGoal)
        IN  /\ token = ZeroAddr =>
                r.err = "Invalid AidToken address" /\ NoFactoryChange(r)
            /\ token # ZeroAddr /\ creator = ZeroAddr =>
                r.err = "Invalid creator address" /\ NoFactoryChange(r)
            /\ token # ZeroAddr /\ creator # ZeroAddr => r.err = Ok

\* A ledger exists: the owner's deployAidChain is refused for a null ledger,
\* for a null creator, for both (ledger error), and accepted otherwise.
C27_Witness ==
    /\ DOMAIN tokens # {}
    /\ \E token \in DOMAIN tokens :
        /\ OwnerDeploysAidChain(token, ZeroAddr, "Relief", FUNDING_GOAL).err
               = "Invalid creator address"
        /\ OwnerDeploysAidChain(token, Donor1, "Relief", FUNDING_GOAL).err = Ok
    /\ OwnerDeploysAidChain(ZeroAddr, ZeroAddr, "Relief", FUNDING_GOAL).err
           = "Invalid AidToken address"
    /\ OwnerDeploysAidChain(ZeroAddr, Donor1, "Relief", FUNDING_GOAL).err
           = "Invalid AidToken address"

\* C28: the deployments log is append-only and grows by one entry on every
\* successful deployCompleteSystem and on no other step (deployAidToken and
\* deployAidChain add nothing); getDeployment(i) fails with "Invalid
\* deployment index" exactly when i >= length and otherwise returns the
\* entry at i as stored; getLatestDeployment fails with "No deployments yet"
\* exactly when the log is empty and otherwise returns the last entry.
C28_DeploymentLog ==
    /\ [](\A index \in 0..MaxProxies :
            LET r == getDeployment(factory, index)
            IN  IF index >= getDeploymentCount(factory)
                THEN r.err = "Invalid deployment index"
                ELSE r.err = Ok /\ r.deployment = factory.deployments[index + 1])
    /\ [](LET r == getLatestDeployment(factory)
          IN  IF factory.deployments = << >>
              THEN r.err = "No deployments yet"
              ELSE /\ r.err = Ok
                   /\ r.deployment = factory.deployments[Len(factory.deployments)]
                   /\ \A i \in 1..Len(factory.deployments) :
                        factory.deployments[i].timestamp <= r.deployment.timestamp)
    /\ [][IF last'.op = "deployCompleteSystem" /\ factory' # factory
          THEN /\ Len(factory'.deployments) = Len(factory.deployments) + 1
               /\ SubSeq(factory'.deployments, 1, Len(factory.deployments))
                      = factory.deployments
          ELSE factory'.deployments = factory.deployments]_vars

\* Two complete systems are deployed: the log has two distinct entries, the
\* latest is the second, and index 2 is out of range.
C28_Witness ==
    /\ Len(factory.deployments) = 2
    /\ getDeployment(factory, 0).deployment # getDeployment(factory, 1).deployment
    /\ getLatestDeployment(factory).deployment = getDeployment(factory, 1).deployment
    /\ getDeployment(factory, 2).err = "Invalid deployment index"

InstanceOps == {"verifyZkKyc", "fundProject", "createMilestone"}

\* The step is a committed call on the instance at address self.
CallOn(self) ==
    /\ last'.op \in InstanceOps
    /\ last'.proxy = self
    /\ <<chains, tokens, balance>>' # <<chains, tokens, balance>>

\* The step leaves the instance at address b as it is: storage (project,
\* milestones, tallies, receipts, donations) and balance.
InstanceUntouched(b) == chains'[b] = chains[b] /\ balance'[b] = balance[b]

\* The pairs created by deployCompleteSystem other than the pair of the
\* instance at address self.
OtherPairs(self) ==
    {factory.deployments[i] : i \in 1..Len(factory.deployments)}
        \ {d \in {factory.deployments[i] : i \in 1..Len(factory.deployments)} :
              d.aidChainProxy = self}

\* The step leaves the ledger of the pair d as it is.
LedgerUntouched(d) == tokens'[d.aidTokenProxy] = tokens[d.aidTokenProxy]

\* A deployment creates proxies at addresses never used before and leaves
\* every proxy in existence as it is.
FreshProxies ==
    /\ \A a \in DOMAIN chains : a \in DOMAIN chains' /\ InstanceUntouched(a)
    /\ \A a \in DOMAIN tokens : a \in DOMAIN tokens' /\ tokens'[a] = tokens[a]
    /\ (DOMAIN chains' \ DOMAIN chains) \cap (DOMAIN tokens \cup DOMAIN tokens') = {}
    /\ (DOMAIN tokens' \ DOMAIN tokens) \cap (DOMAIN chains \cup DOMAIN chains') = {}

UpgradeCallers == Accounts \cup {Admin, FactoryAddr, AidChainAddr}

\* C30 as stated: an upgrade of the instance succeeds only when requested by
\* the project's creator, an upgrade of the ledger only when requested by the
\* factory's owner; requested by anyone else it fails with
\* OwnableUnauthorizedAccount and changes nothing.
C30_UpgradeByCreatorAndAdminAsClaimed ==
    \A sender \in UpgradeCallers : \A newImplementation \in NewImplementations :
        LET i == upgradeToAndCall(aidChain, sender, newImplementation)
            l == upgradeToAndCall(aidToken, sender, newImplementation)
        IN  /\ i.err = Ok => sender = aidChain.project.creator
            /\ sender # aidChain.project.creator =>
                   i.err = "OwnableUnauthorizedAccount" /\ i.storage = aidChain
            /\ l.err = Ok => sender = factory.owner
            /\ sender # factory.owner =>
                   l.err = "OwnableUnauthorizedAccount" /\ l.storage = aidToken

\* C30 amended: an upgrade of a proxy succeeds only when requested by the
\* proxy's current owner; that is the project's creator for the instance and
\* the factory's owner for the ledger until the owner hands ownership over
\* with transferOwnership, and no other step changes an owner.  Requested by
\* anyone else the upgrade fails with OwnableUnauthorizedAccount and changes
\* nothing.  A successful upgrade (with empty call data) replaces the
\* implementation and leaves all stored project, milestone, donation,
\* reputation and ledger data, and the balances, as they were.
C30_UpgradeByOwner ==
    /\ [](\A sender \in UpgradeCallers : \A newImplementation \in NewImplementations :
            LET i == upgradeToAndCall(aidChain, sender, newImplementation)
                l == upgradeToAndCall(aidToken, sender, newImplementation)
            IN  /\ IF sender = aidChain.owner
                   THEN /\ i.err = Ok
                        /\ i.storage = [implementation |-> newImplementation] @@ aidChain
                   ELSE i.err = "OwnableUnauthorizedAccount" /\ i.storage = aidChain
                /\ IF sender = aidToken.owner
                   THEN /\ l.err = Ok
                        /\ l.storage = [implementation |-> newImplementation] @@ aidToken
                   ELSE l.err = "OwnableUnauthorizedAccount" /\ l.storage = aidToken)
    /\ [][/\ aidChain'.owner # aidChain.owner =>
                last'.op = "AidChain.transferOwnership" /\ last'.sender = aidChain.owner
          /\ aidToken'.owner # aidToken.owner =>
                last'.op = "AidToken.transferOwnership" /\ last'.sender = aidToken.owner
          /\ aidChain'.implementation # aidChain.implementation =>
                /\ last'.sender = aidChain.owner
                /\ aidChain' = [implementation |-> aidChain'.implementation] @@ aidChain
                /\ UNCHANGED <<aidToken, balance>>
          /\ aidToken'.implementation # aidToken.implementation =>
                /\ last'.sender = aidToken.owner
                /\ aidToken' = [implementation |-> aidToken'.implementation] @@ aidToken
                /\ UNCHANGED <<aidChain, balance>>]_vars
    /\ [](aidChain.project.creator = Creator /\ factory.owner = Admin)

\* The creator has upgraded a funded instance with a milestone and a vote
\* stored, the factory's owner has upgraded the ledger, and both still own
\* their proxies; a donor's upgrade request is refused.
C30_Witness ==
    /\ last.op = "AidChain.upgradeToAndCall"
    /\ last.sender = Creator
    /\ aidChain.owner = Creator
    /\ aidToken.owner = Admin
    /\ aidChain.implementation \in NewImplementations
    /\ aidToken.implementation \in NewImplementations
    /\ aidChain.project.fundsRaised = 2
    /\ aidChain.milestoneCount = 1
    /\ aidChain.milestoneVotes[1][Donor2]
    /\ aidToken.balanceOf[Creator] >= VERIFICATION_REWARD
    /\ upgradeToAndCall(aidChain, Donor1, "implementationV3").err
           = "OwnableUnauthorizedAccount"

\* The instance is as initialize left it and is its ledger's minter.
AsInitialized ==
    /\ ~aidChain.project.zkKycVerified
    /\ aidChain.project.fundsRaised = 0
    /\ aidChain.milestoneCount = 0
    /\ aidToken.aidChainContract = AidChainAddr
    /\ balance[AidChainAddr] = 0

\* Scenario A run from the current state: verifyZkKyc, fundProject{value: 1}
\* by donor1, createMilestone(2, 1) and finalizeMilestone(1) by the creator
\* with no submitMilestoneProof, voteOnMilestone(1, true) by donor1.
ScenarioA ==
    LET verified == verifyZkKyc(aidChain, aidToken, balance)
        funded == fundProject(verified.chain, verified.token, verified.bal, now,
                              Donor1, 1)
        created == createMilestone(funded.chain, funded.token, funded.bal, now,
                                   Creator, 2, 1)
        finalized == finalizeMilestone(created.chain, created.token, created.bal,
                                       Creator, 1)
        voted == voteOnMilestone(finalized.chain, finalized.token, finalized.bal,
                                 now, Donor1, 1, TRUE, "accept")
    IN  [verified |-> verified, funded |-> funded, created |-> created,
         finalized |-> finalized, voted |-> voted]

\* C31: finalizeMilestone does not look at the proof: the creator's call on
\* a milestone that is not completed succeeds with or without a stored
\* proof.  Scenario A, run on the instance as initialized, is accepted step
\* by step and ends with the milestone approved, the creator's balance
\* raised by 1 (the release of 2 clamped to the balance), the instance's
\* balance 0 and reputationScore raised by MILESTONE_REPUTATION_BOOST.
C31_ScenarioA ==
    /\ \A mid \in MilestoneIds :
        ~Ms(mid).completed =>
            /\ Finalize(Creator, mid).err = Ok
            /\ Finalize(Creator, mid).chain.milestones[mid].completed
    /\ AsInitialized =>
        LET s == ScenarioA
        IN  /\ s.verified.err = Ok /\ s.funded.err = Ok /\ s.created.err = Ok
            /\ s.created.chain.milestones[1].proofIpfsHash = ""
            /\ s.finalized.err = Ok
            /\ s.finalized.chain.milestones[1].proofIpfsHash = ""
            /\ s.voted.err = Ok
            /\ s.voted.chain.milestones[1].approved
            /\ s.voted.bal[Creator] = balance[Creator] + 1
            /\ s.voted.bal[AidChainAddr] = 0
            /\ s.voted.chain.project.reputationScore =
                   aidChain.project.reputationScore + MILESTONE_REPUTATION_BOOST

\* The end of scenario A: donor1's vote has approved a milestone of amount 2
\* that never had a proof, releasing the whole balance of 1.
C31_Witness ==
    /\ last.op = "voteOnMilestone"
    /\ last.sender = Donor1
    /\ Ms(1).approved
    /\ Ms(1).proofIpfsHash = ""
    /\ Ms(1).fundingAmount = 2
    /\ aidChain.project.fundsRaised = 1
    /\ balance[Creator] = 1
    /\ balance[AidChainAddr] = 0
    /\ aidChain.project.reputationScore = MILESTONE_REPUTATION_BOOST

\* C32: a successful vote with approve = false never approves the milestone
\* and never moves funds or credits; it does not block a later approval:
\* once the only vote on a finalized milestone is donor1's vote against with
\* weight 1, a vote for by donor2 with donation 2 is accepted (while the
\* deadline is ahead and the ledger takes the credit) and approves the
\* milestone inside that call.
C32_VoteAgainst ==
    /\ \A sender \in Accounts : \A mid \in MilestoneIds : \A cb \in Callbacks :
        LET r == Vote(sender, mid, FALSE, cb)
        IN  r.err = Ok =>
            /\ ~r.chain.milestones[mid].approved
            /\ r.bal = balance
            /\ r.token = aidToken
            /\ r.calls = << >>
    /\ \A mid \in MilestoneIds :
        (/\ Ms(mid).completed /\ ~Ms(mid).approved
         /\ aidChain.milestoneVotes[mid][Donor1]
         /\ ~aidChain.milestoneVotes[mid][Donor2]
         /\ Ms(mid).votesAgainst = 1 /\ Ms(mid).votesFor = 0
         /\ aidChain.projectDonations[Donor2] = 2
         /\ now < Ms(mid).votingDeadline
         /\ LedgerAccepts) =>
            LET r == Vote(Donor2, mid, TRUE, "accept")
            IN  /\ r.err = Ok
                /\ r.chain.milestones[mid].approved
                /\ r.chain.milestones[mid].votesFor = 2
                /\ r.chain.milestones[mid].votesAgainst = 1

\* The end of scenario B: after donor1's vote against (weight 1), donor2's
\* vote for (weight 2) has approved the milestone.
C32_Witness ==
    /\ last.op = "voteOnMilestone"
    /\ last.sender = Donor2
    /\ last.approve
    /\ Ms(1).approved
    /\ Ms(1).votesAgainst = 1
    /\ Ms(1).votesFor = 2
    /\ aidChain.milestoneVotes[1][Donor1]
    /\ balance[Creator] > 0

\* The milestones that are approved.
Approved == {mid \in MilestoneIds : Ms(mid).approved}

\* C33 as stated: every approval adds exactly MILESTONE_REPUTATION_BOOST to
\* reputationScore, whether or not the released amount is zero, so that
\* reputationScore = MILESTONE_REPUTATION_BOOST * (number of approved
\* milestones) in every state.
C33_BoostOnEveryApprovalAsClaimed ==
    aidChain.project.reputationScore =
        MILESTONE_REPUTATION_BOOST * Cardinality(Approved)

\* The sum of a sequence of amounts.
RECURSIVE SumSeq(_)
SumSeq(s) == IF s = << >> THEN 0 ELSE Head(s) + SumSeq(Tail(s))

\* The total released so far, over all milestones.
RECURSIVE TotalReleased(_)
TotalReleased(r) == IF r = << >> THEN 0 ELSE SumSeq(Head(r)) + TotalReleased(Tail(r))

\* C34: value enters the instance only with fundProject and leaves it only
\* with a release, so the instance's balance equals fundsRaised minus the sum
\* of all amounts released for approved milestones; the balance is never
\* negative and the total transferred to the creator never exceeds the total
\* donated; amounts are released for approved milestones only.
C34_EscrowAccounting ==
    /\ balance[AidChainAddr] = aidChain.project.fundsRaised - TotalReleased(released)
    /\ balance[AidChainAddr] >= 0
    /\ TotalReleased(released) <= aidChain.project.fundsRaised
    /\ \A mid \in MilestoneIds : released[mid] # << >> => Ms(mid).approved
    /\ \A a \in Accounts : balance[a] >= 0

\* Three units were donated and two of them released for an approved
\* milestone: one unit stays in the instance.
C34_Witness ==
    /\ aidChain.project.fundsRaised = 3
    /\ TotalReleased(released) = 2
    /\ balance[AidChainAddr] = 1
    /\ Ms(1).approved

\* The accounts holding a vote receipt on a milestone in storage c.
VotersIn(c, mid) == {a \in Accounts : c.milestoneVotes[mid][a]}

\* The sum of the cumulative donations of a set of accounts.
RECURSIVE DonatedBy(_)
DonatedBy(S) ==
    IF S = {} THEN 0
    ELSE LET a == CHOOSE x \in S : TRUE
         IN  aidChain.projectDonations[a] + DonatedBy(S \ {a})

\* C35: for every milestone the two tallies together are made of one weight
\* per vote receipt: with no receipt they are zero, and every successful vote
\* adds one receipt (the caller's) and to the tallies exactly the caller's
\* cumulative donation at that moment.  Donations never shrink, so the
\* tallies together are at most the sum of the current cumulative donations
\* of the voters holding a receipt, and at most fundsRaised.
C35_TallyBound ==
    /\ \A mid \in MilestoneIds :
        /\ VotersIn(aidChain, mid) = {} => Ms(mid).votesFor + Ms(mid).votesAgainst = 0
        /\ Ms(mid).votesFor + Ms(mid).votesAgainst <= DonatedBy(VotersIn(aidChain, mid))
        /\ Ms(mid).votesFor + Ms(mid).votesAgainst <= aidChain.project.fundsRaised
    /\ DonatedBy(Accounts) = aidChain.project.fundsRaised
    /\ \A sender \in Accounts : \A mid \in MilestoneIds : \A approve \in BOOLEAN :
       \A cb \in Callbacks :
        LET r == Vote(sender, mid, approve, cb)
            after == r.chain.milestones[mid]
        IN  r.err = Ok =>
            /\ sender \notin VotersIn(aidChain, mid)
            /\ VotersIn(r.chain, mid) = VotersIn(aidChain, mid) \cup {sender}
            /\ after.votesFor + after.votesAgainst =
                   Ms(mid).votesFor + Ms(mid).votesAgainst
                       + aidChain.projectDonations[sender]
            /\ r.chain.projectDonations = aidChain.projectDonations

\* donor2 voted with weight 1 and donated one more unit afterwards, donor1
\* donated and did not vote: the tallies hold 1, the voter has donated 2 and
\* fundsRaised is 3.
C35_Witness ==
    /\ aidChain.milestoneCount = 1
    /\ Ms(1).votesFor + Ms(1).votesAgainst = 1
    /\ VotersIn(aidChain, 1) = {Donor2}
    /\ aidChain.projectDonations[Donor2] = 2
    /\ aidChain.projectDonations[Donor1] = 1
    /\ aidChain.project.fundsRaised = 3

\* C36: for every donor, projectDonations, donorReputation and the sum of
\* the amounts in the donor's history are equal, and fundsRaised is the sum
\* of projectDonations over all donors.
C36_DonationBooks ==
    /\ \A d \in Accounts :
        /\ aidChain.projectDonations[d] = aidChain.donorReputation[d]
        /\ aidChain.donorReputation[d] = SumAmounts(aidChain.donorHistory[d])
        /\ \A i \in 1..Len(aidChain.donorHistory[d]) :
             aidChain.donorHistory[d][i].donor = d
    /\ aidChain.project.fundsRaised =
           aidChain.projectDonations[Creator] + aidChain.projectDonations[Donor1]
               + aidChain.projectDonations[Donor2]

\* Two donors have donated, one of them twice, and a release has happened:
\* the books still agree.
C36_Witness ==
    /\ Len(aidChain.donorHistory[Donor2]) = 2
    /\ aidChain.donorReputation[Donor2] = 2
    /\ aidChain.donorReputation[Donor1] = 1
    /\ aidChain.project.fundsRaised = 3
    /\ TotalReleased(released) > 0

\* C37: no operation clears project.active, so fundProject and
\* createMilestone never fail with ProjectNotActive; a positive donation to a
\* verified project is accepted whenever the ledger takes the reward credit
\* (or the reward is zero), also when fundsRaised has reached or exceeded
\* fundingGoal and when every milestone is approved.
C37_NeverInactive ==
    /\ aidChain.project.active
    /\ \A sender \in Accounts : \A value \in 0..balance[sender] :
        LET r == Fund(sender, value)
        IN  /\ r.err # "ProjectNotActive"
            /\ r.err = Ok => r.chain.project.active
            /\ (/\ value > 0
                /\ aidChain.project.zkKycVerified
                /\ aidReward(value) = 0 \/ LedgerAccepts) => r.err = Ok
    /\ \A sender \in Callers : \A fundingAmount \in FundingAmounts :
       \A votingDuration \in VotingDurations :
        Create(sender, fundingAmount, votingDuration).err # "ProjectNotActive"

\* A donation has been accepted after fundsRaised had reached the goal and
\* the only milestone had been approved.
C37_Witness ==
    /\ last.op = "fundProject"
    /\ aidChain.project.fundsRaised - last.value >= aidChain.project.fundingGoal
    /\ aidChain.project.fundsRaised > aidChain.project.fundingGoal
    /\ aidChain.milestoneCount = MaxMilestones
    /\ \A mid \in MilestoneIds : Ms(mid).approved
    /\ aidChain.project.active

\* C38: votingDeadline is written once, by createMilestone, as
\* block.timestamp + votingDuration, and no later step changes it.  A
\* milestone gets no vote before it is finalized and none at or after its
\* deadline, so a milestone finalized at or after its deadline (in particular
\* one created with votingDuration 0) never accepts a vote and is never
\* approved.
C38_WindowFixedAtCreation ==
    /\ [](\A sender \in Callers : \A fundingAmount \in FundingAmounts :
          \A votingDuration \in VotingDurations :
            LET r == Create(sender, fundingAmount, votingDuration)
            IN  r.err = Ok =>
                  r.chain.milestones[r.chain.milestoneCount].votingDeadline
                      = now + votingDuration)
    /\ [][\A mid \in MilestoneIds :
            /\ aidChain'.milestones[mid].votingDeadline = Ms(mid).votingDeadline
            /\ (~Ms(mid).completed \/ now >= Ms(mid).votingDeadline) =>
                /\ aidChain'.milestoneVotes[mid] = aidChain.milestoneVotes[mid]
                /\ aidChain'.milestones[mid].approved = Ms(mid).approved]_vars
    /\ [](\A mid \in MilestoneIds :
            /\ ~Ms(mid).completed => VotersIn(aidChain, mid) = {} /\ ~Ms(mid).approved
            /\ Ms(mid).approved => VotersIn(aidChain, mid) # {}
            /\ now >= Ms(mid).votingDeadline =>
                \A sender \in Accounts : \A approve \in BOOLEAN : \A cb \in Callbacks :
                    Vote(sender, mid, approve, cb).err # Ok)

\* A milestone created with a deadline one tick ahead was finalized when the
\* deadline had come: it is completed, without a vote, and a donor's vote is
\* refused with VotingPeriodEnded.
C38_Witness ==
    /\ last.op = "finalizeMilestone"
    /\ aidChain.milestoneCount = 1
    /\ Ms(1).completed
    /\ Ms(1).votingDeadline = 1
    /\ now = 1
    /\ VotersIn(aidChain, 1) = {}
    /\ ~Ms(1).approved
    /\ aidChain.projectDonations[Donor2] = 2
    /\ Vote(Donor2, 1, TRUE, "accept").err = "VotingPeriodEnded"

\* The ledger refuses the instance's credit in one of the crediting calls.
LedgerRejects ==
    \/ Verify.err = "Not authorized"
    \/ \E sender \in Accounts : \E value \in 0..balance[sender] :
           Fund(sender, value).err = "Not authorized"
    \/ \E sender \in Accounts : \E mid \in MilestoneIds :
       \E approve \in BOOLEAN : \E cb \in Callbacks :
           Vote(sender, mid, approve, cb).err = "Not authorized"

\* C39 as stated: in every state reachable after deployCompleteSystem the
\* ledger's minter is the instance deployed with it, and verifyZkKyc,
\* fundProject and a milestone release never fail on the ledger's refusal.
C39_BindingPermanentAsClaimed ==
    /\ aidToken.aidChainContract = AidChainAddr
    /\ ~LedgerRejects

\* C39 amended: the ledger's minter changes only in a setAidChainContract call
\* made by the ledger's owner; as long as it is the instance deployed with the
\* ledger no crediting call fails on the ledger's refusal; once the owner has
\* set it to another address, the instance's nonzero credits are refused with
\* "Not authorized".
C39_BindingUntilRepointed ==
    /\ [][aidToken'.aidChainContract # aidToken.aidChainContract =>
            /\ last'.op = "setAidChainContract"
            /\ last'.sender = aidToken.owner]_vars
    /\ [](aidToken.aidChainContract = AidChainAddr => ~LedgerRejects)
    /\ [](aidToken.aidChainContract # AidChainAddr =>
            /\ ~aidChain.project.zkKycVerified => Verify.err = "Not authorized"
            /\ \A sender \in Accounts : \A value \in 0..balance[sender] :
                   FundGate(value) /\ aidReward(value) > 0 =>
                       Fund(sender, value).err = "Not authorized")

\* The ledger's owner has cleared the minter of a freshly deployed pair, and
\* the instance's verifyZkKyc is refused by the ledger.
C39_Witness ==
    /\ last.op = "setAidChainContract"
    /\ last.sender = aidToken.owner
    /\ aidToken.aidChainContract = ZeroAddr
    /\ ~aidChain.project.zkKycVerified
    /\ Verify.err = "Not authorized"

\* The ledgers created by deployAidToken alone: those of no recorded pair.
StandaloneLedgers ==
    DOMAIN tokens \ {factory.deployments[i].aidTokenProxy :
                        i \in 1..Len(factory.deployments)}

\* The instances deployed against the ledger.
BoundTo(ledger) == {self \in DOMAIN chains : chains[self].aidToken = ledger}

\* C40: a ledger created by deployAidToken alone stays owned by the factory
\* contract and never gets a minter: no account's setAidChainContract on it
\* succeeds and the factory has no function that calls it.  On every instance
\* deployed against such a ledger verifyZkKyc fails on the ledger's refusal,
\* zkKycVerified stays false and no fundProject succeeds.
C40_StandaloneNeverAuthorized ==
    \A ledger \in StandaloneLedgers :
        /\ tokens[ledger].owner = FactoryAddr
        /\ tokens[ledger].aidChainContract = ZeroAddr
        /\ \A a \in Accounts : tokens[ledger].balanceOf[a] = 0
        /\ \A sender \in Callers : \A a \in DOMAIN chains \cup {ZeroAddr} :
               setAidChainContract(tokens[ledger], sender, a).err
                   = "OwnableUnauthorizedAccount"
        /\ \A self \in BoundTo(ledger) :
            /\ ~chains[self].project.zkKycVerified
            /\ chains[self].project.fundsRaised = 0
            /\ balance[self] = 0
            /\ verifyZkKycAt(self, chains[self], tokens[ledger], balance).err
                   = "Not authorized"
            /\ \A sender \in Accounts : \A value \in 0..balance[sender] :
                   fundProjectAt(self, chains[self], tokens[ledger], balance, now,
                                 sender, value).err
                       = IF value = 0 THEN "DonationMustBePositive"
                                      ELSE "ProjectNotVerified"

\* An instance has been deployed against a ledger of no pair, while an
\* instance of a complete pair has been verified: the standalone one is
\* unverified and its verifyZkKyc is refused.
C40_Witness ==
    /\ \E ledger \in StandaloneLedgers : \E self \in BoundTo(ledger) :
           /\ ~chains[self].project.zkKycVerified
           /\ verifyZkKycAt(self, chains[self], tokens[ledger], balance).err
                  = "Not authorized"
    /\ \E i \in 1..Len(factory.deployments) :
           chains[factory.deployments[i].aidChainProxy].project.zkKycVerified

====
